---- MODULE Spec2Model ----
(***************************************************************************)
(* Staged initialization of the activity-coefficient property package      *)
(* (activity_coeff_prop_pack.py) and of the supercritical power plant      *)
(* flowsheet (supercritical_powerplant_simple.py).                         *)
(*                                                                         *)
(* A variable of the algebraic model is represented by its fixed flag (and,*)
(* where a claim needs it, an abstract value); a constraint by its active  *)
(* flag.  The nonlinear solver is external: a solve returns a termination  *)
(* condition chosen nondeterministically and never changes a fixed flag or *)
(* an active flag.                                                         *)
(***************************************************************************)
EXTENDS Integers, FiniteSets, Sequences, TLC

\* Number of keys of the indexed state block (blk.keys()).
NumKeys == 1

Keys == 1..NumKeys

\* _params.component_list of the parameter block (a binary system).
component_list == {"benzene", "toluene"}

NumComp == Cardinality(component_list)

None == "None"

\* ConfigValue domains of the parameter block.
ActivityCoeffModels == {"Ideal", "NRTL", "Wilson"}

ValidPhases == {"Liq", "Vap", "VapLiq", "LiqVap"}

\* The solver's termination condition; the code only tests == optimal.
TerminationCondition == {"optimal", "infeasible"}

\* The configuration of an indexed state block: the options of the parameter
\* block and the per-block options, given once for every index.
Configs ==
    [activity_coeff_model : ActivityCoeffModels,
     valid_phase : ValidPhases,
     has_phase_equilibrium : BOOLEAN,
     defined_state : BOOLEAN]

VARIABLES
    config,      \* configuration of the state block
    pc,          \* position of the caller / of initialize
    exists,      \* constraint families created on the blocks
    fixed,       \* set of <<k, v>>: state variable v of block k is fixed
    value,       \* <<k, v>> -> abstract value of the state variable
    ac_fixed,    \* keys whose activity_coeff_comp is fixed
    ac_value,    \* k -> abstract value of activity_coeff_comp of block k
    Gij_fixed,   \* set of <<k, i, j>>: Gij_coeff[i, j] of block k is fixed
    Gij_value,   \* <<k, i, j>> -> abstract value of Gij_coeff[i, j]
    active,      \* set of <<k, c>>: constraint family c of block k is active
    flags,       \* the flag dictionary built by initialize
    args,        \* hold_state / state_vars_fixed of the running call
    pre,         \* fixed flags and active flags when initialize was called
    results,     \* termination condition of the last solve
    n_solves,    \* solver invocations issued by the running call
    ret,         \* what initialize returned or raised
    fs,          \* the flowsheet (see below)
    nlp          \* the PyNumero test (see below)

ppvars == <<config, pc, exists, fixed, value, ac_fixed, ac_value, Gij_fixed,
            Gij_value, active, flags, args, pre, results, n_solves, ret>>

vars == <<config, pc, exists, fixed, value, ac_fixed, ac_value, Gij_fixed,
          Gij_value, active, flags, args, pre, results, n_solves, ret, fs,
          nlp>>

----
\* State variables of a block (define_state_vars).
NoIdx == "-"

StateVars ==
    {<<"flow_mol", NoIdx>>, <<"pressure", NoIdx>>, <<"temperature", NoIdx>>}
        \cup {<<"mole_frac", j>> : j \in component_list}

\* Phase list of the parameter block.
phase_list(cfg) ==
    IF cfg.valid_phase \in {"LiqVap", "VapLiq"} THEN {"Liq", "Vap"}
    ELSE IF cfg.valid_phase = "Liq" THEN {"Liq"}
    ELSE {"Vap"}

\* Fault model: the consistency check tests the liquid phase only.
InconsistentInputs_LiqOnly(cfg) ==
    cfg.has_phase_equilibrium /\ cfg.valid_phase = "Liq"

\* build: the consistency check on has_phase_equilibrium and valid_phase.
InconsistentInputs(cfg) ==
    cfg.has_phase_equilibrium /\ cfg.valid_phase \in {"Vap", "Liq"}

\* build: which equation set is made.
MakesLiqPhaseEq(cfg) == ~cfg.has_phase_equilibrium /\ cfg.valid_phase = "Liq"

MakesVapPhaseEq(cfg) == ~cfg.has_phase_equilibrium /\ cfg.valid_phase = "Vap"

MakesFlashEq(cfg) ==
    \/ cfg.has_phase_equilibrium
    \/ cfg.valid_phase = "LiqVap"
    \/ cfg.valid_phase = "VapLiq"

MakesActivityEq(cfg) ==
    MakesFlashEq(cfg) /\ cfg.activity_coeff_model \in {"NRTL", "Wilson"}

----
\* Constraint families.  An indexed constraint is activated and deactivated
\* as a whole (c.activate() / c.deactivate() on the component).

\* _make_liq_phase_eq / _make_vap_phase_eq.
SinglePhaseEqs(cfg) ==
    {"eq_total", "eq_comp"}
        \cup (IF cfg.defined_state = FALSE THEN {"eq_mol_frac_out"} ELSE {})

\* Fault model: _make_flash_eq declares eq_mol_frac_out whatever
\* defined_state is.
FlashEqs_AlwaysOutlet(cfg) ==
    {"eq_total", "eq_comp", "eq_sum_mol_frac", "_t1_constraint",
     "_teq_constraint", "eq_phase_equilibrium", "eq_temperature_bubble",
     "eq_temperature_dew", "eq_P_vap", "eq_mol_frac_out"}

\* _make_flash_eq, with the properties its rules build on demand
\* (temperature_bubble, temperature_dew, pressure_sat).
FlashEqs(cfg) ==
    {"eq_total", "eq_comp", "eq_sum_mol_frac", "_t1_constraint",
     "_teq_constraint", "eq_phase_equilibrium", "eq_temperature_bubble",
     "eq_temperature_dew", "eq_P_vap"}
        \cup (IF cfg.defined_state = FALSE THEN {"eq_mol_frac_out"} ELSE {})

\* _make_NRTL_eq / _make_Wilson_eq.
ActivityEqs == {"eq_Gij_coeff", "eq_A", "eq_B", "eq_activity_coeff"}

\* Enthalpy and entropy, built on demand for the energy balance.
EnergyEqs(cfg) ==
    {"eq_enth_mol_phase", "eq_enth_mol_phase_comp", "eq_entr_mol_phase",
     "eq_entr_mol_phase_comp"}
        \cup (IF "Vap" \in phase_list(cfg) THEN {"eq_ds_vap"} ELSE {})

\* build: the constraints of one block.
BuiltConstraints(cfg) ==
    (IF MakesLiqPhaseEq(cfg) THEN SinglePhaseEqs(cfg) ELSE {})
        \cup (IF MakesActivityEq(cfg) THEN ActivityEqs ELSE {})
        \cup (IF MakesFlashEq(cfg) THEN FlashEqs(cfg) ELSE {})
        \cup (IF MakesVapPhaseEq(cfg) THEN SinglePhaseEqs(cfg) ELSE {})
        \cup EnergyEqs(cfg)

\* rule_total_mass_balance: the phases whose flow_mol_phase eq_total sums
\* and equates to flow_mol.
rule_total_mass_balance(cfg) ==
    IF MakesLiqPhaseEq(cfg) THEN {"Liq"}
    ELSE IF MakesFlashEq(cfg) THEN {"Liq", "Vap"}
    ELSE IF MakesVapPhaseEq(cfg) THEN {"Vap"}
    ELSE {}

\* Index set of eq_phase_equilibrium (rule_phase_eq), when made.
eq_phase_equilibrium_index(cfg) ==
    IF MakesFlashEq(cfg) THEN component_list ELSE {}

\* Index set of Gij_coeff: component_list x component_list, when made.
GijIndex(cfg) ==
    IF MakesActivityEq(cfg) THEN component_list \X component_list ELSE {}

\* Fault model: rule_Gij_coeff without the i == j branch.
rule_Gij_coeff_fixes_None(cfg) == {}

\* rule_Gij_coeff: Gij_coeff[i, i] is fixed at 1 and its constraint skipped.
rule_Gij_coeff_fixes(cfg) == {ij \in GijIndex(cfg) : ij[1] = ij[2]}

\* Index set of eq_Gij_coeff: the pairs for which the rule returns a relation.
eq_Gij_coeff_index(cfg) == GijIndex(cfg) \ rule_Gij_coeff_fixes(cfg)

\* Number of scalar constraints in a family.
FamilySize(cfg, c) ==
    LET C == NumComp
        P == Cardinality(phase_list(cfg))
    IN  CASE c \in {"eq_total", "eq_sum_mol_frac", "eq_mol_frac_out",
                    "_t1_constraint", "_teq_constraint",
                    "eq_temperature_bubble", "eq_temperature_dew"} -> 1
          [] c \in {"eq_comp", "eq_phase_equilibrium", "eq_P_vap", "eq_A",
                    "eq_B", "eq_activity_coeff", "eq_ds_vap"} -> C
          [] c = "eq_Gij_coeff" -> Cardinality(eq_Gij_coeff_index(cfg))
          [] c \in {"eq_enth_mol_phase", "eq_entr_mol_phase"} -> P
          [] c \in {"eq_enth_mol_phase_comp", "eq_entr_mol_phase_comp"} -> P * C

\* Number of variables of one block other than the state variables and the
\* user-supplied model parameters (alpha, tau, vol_mol_comp), Gij_coeff and
\* activity_coeff_comp: flow_mol_phase, mole_frac_phase, the flash
\* temperatures, pressure_sat, A, B and the enthalpy/entropy variables.
NumOtherVars(cfg) ==
    LET C == NumComp
        P == Cardinality(phase_list(cfg))
    IN  P + P * C
        + (IF MakesFlashEq(cfg) THEN 4 + C ELSE 0)
        + (IF MakesActivityEq(cfg) THEN 2 * C ELSE 0)
        + 2 * P + 2 * P * C
        + (IF "Vap" \in phase_list(cfg) THEN C ELSE 0)

SumSizes(cfg, S) ==
    LET RECURSIVE Sum(_)
        Sum(T) == IF T = {} THEN 0
                  ELSE LET c == CHOOSE x \in T : TRUE
                       IN  FamilySize(cfg, c) + Sum(T \ {c})
    IN  Sum(S)

\* The constraint families whose expressions contain the state variable v.
OccursIn(cfg, v) ==
    CASE v[1] = "flow_mol" -> {"eq_total", "eq_comp"}
      [] v[1] = "mole_frac" ->
             {"eq_comp", "eq_mol_frac_out", "eq_temperature_bubble",
              "eq_temperature_dew"}
      [] v[1] = "pressure" ->
             {"eq_phase_equilibrium", "eq_temperature_bubble",
              "eq_temperature_dew"}
                 \cup (IF "Vap" \in phase_list(cfg)
                       THEN {"eq_entr_mol_phase_comp"} ELSE {})
      [] v[1] = "temperature" ->
             {"_t1_constraint", "eq_enth_mol_phase_comp",
              "eq_entr_mol_phase_comp"}

\* degrees_of_freedom(blk[k]): free variables that occur in an active
\* equality constraint minus active equality constraints of the block.
degrees_of_freedom(cfg, k, fx, acf, gf, act) ==
    LET unfixedState ==
            Cardinality({v \in StateVars :
                           /\ <<k, v>> \notin fx
                           /\ \E c \in OccursIn(cfg, v) \cap
                                      BuiltConstraints(cfg) : <<k, c>> \in act})
        unfixedGij == Cardinality({ij \in GijIndex(cfg) :
                                     <<k, ij[1], ij[2]>> \notin gf})
        unfixedAc == IF MakesActivityEq(cfg) /\ k \notin acf
                     THEN NumComp ELSE 0
        activeEqs == SumSizes(cfg, {c \in BuiltConstraints(cfg) :
                                      <<k, c>> \in act})
    IN  unfixedState + unfixedGij + unfixedAc + NumOtherVars(cfg) - activeEqs

----
\* The property package: build, the caller's fixes, initialize, release_state.

\* Flag dictionary; none = TRUE stands for Python's None.
NoFlags == [none |-> TRUE, Fflag |-> <<>>, Xflag |-> <<>>, Pflag |-> <<>>,
            Tflag |-> <<>>]

NoArgs == [hold_state |-> FALSE, state_vars_fixed |-> FALSE, released |-> "-"]

NoPre == [fixed |-> {}, ac_fixed |-> {}, active |-> {}]

\* The flowsheet is not touched by the property package.
FsIdle == [pc |-> "idle"]

\* The PyNumero test is a program of its own.
NlpIdle == [pc |-> "idle"]

\* Families deactivated before the first solve.
DeactivatedForFirstSolve ==
    {"eq_total", "eq_comp", "eq_sum_mol_frac", "eq_phase_equilibrium",
     "eq_enth_mol_phase", "eq_entr_mol_phase", "eq_Gij_coeff", "eq_A", "eq_B",
     "eq_activity_coeff"}

\* Fault model: eq_total is left out of the activation before the second
\* solve.
ActivatedForSecondSolve_NoTotal ==
    {"eq_comp", "eq_sum_mol_frac", "eq_phase_equilibrium"}

\* Fault model: eq_phase_equilibrium is left out of the activation before
\* the second solve.
ActivatedForSecondSolve_NoPhaseEquilibrium ==
    {"eq_total", "eq_comp", "eq_sum_mol_frac"}

\* Families activated before the second solve.
ActivatedForSecondSolve ==
    {"eq_total", "eq_comp", "eq_sum_mol_frac", "eq_phase_equilibrium"}

\* Fault model: eq_activity_coeff is activated together with eq_Gij_coeff,
\* eq_A and eq_B.
ActivatedForThirdSolve_WithActivityCoeff ==
    {"eq_Gij_coeff", "eq_A", "eq_B", "eq_activity_coeff"}

\* Families activated before the third solve (non-ideal models only).
ActivatedForThirdSolve == {"eq_Gij_coeff", "eq_A", "eq_B"}

\* Fault model: eq_entr_mol_phase is left out of the activation before the
\* fifth solve.
ActivatedForFifthSolve_NoEntropy == {"eq_enth_mol_phase"}

\* Families activated before the fifth solve.
ActivatedForFifthSolve == {"eq_enth_mol_phase", "eq_entr_mol_phase"}

\* The families of every block that component_objects(Constraint) yields
\* with a local_name in S.
Named(S) == {kc \in Keys \X exists : kc[2] \in S}

\* Fault model: the first solve is never issued.
FirstSolveIssued_Never(cfg) == FALSE

\* Fault model: the first solve is issued for every block.
FirstSolveIssued_Always(cfg) == TRUE

\* The condition under which the first solve is issued.
FirstSolveIssued(cfg) ==
    \/ cfg.has_phase_equilibrium
    \/ cfg.valid_phase = "LiqVap"
    \/ cfg.valid_phase = "VapLiq"

\* Fault model: the activity coefficients are not fixed for the second
\* solve.
FixesActivityCoeff_Never(cfg) == FALSE

\* The condition under which activity_coeff_comp is fixed at 1 before the
\* second solve.
FixesActivityCoeff(cfg) == cfg.activity_coeff_model # "Ideal"

\* Fault model: every flag is recorded False.
RecordFlags_AllFalse(fx) ==
    [none |-> FALSE,
     Fflag |-> [k \in Keys |-> FALSE],
     Xflag |-> [kj \in Keys \X component_list |-> FALSE],
     Pflag |-> [k \in Keys |-> FALSE],
     Tflag |-> [k \in Keys |-> FALSE]]

\* The flags recorded by initialize: True iff the variable is already fixed.
RecordFlags(fx) ==
    [none |-> FALSE,
     Fflag |-> [k \in Keys |-> <<k, <<"flow_mol", NoIdx>>>> \in fx],
     Xflag |-> [kj \in Keys \X component_list |->
                   <<kj[1], <<"mole_frac", kj[2]>>>> \in fx],
     Pflag |-> [k \in Keys |-> <<k, <<"pressure", NoIdx>>>> \in fx],
     Tflag |-> [k \in Keys |-> <<k, <<"temperature", NoIdx>>>> \in fx]]

\* Fault model: release_state tests the flags for True.
Unfixed_FlagTrue(fl) ==
    {<<k, <<"flow_mol", NoIdx>>>> : k \in {x \in Keys : fl.Fflag[x] = TRUE}}
        \cup {<<kj[1], <<"mole_frac", kj[2]>>>> :
                kj \in {x \in Keys \X component_list : fl.Xflag[x] = TRUE}}
        \cup {<<k, <<"pressure", NoIdx>>>> :
                k \in {x \in Keys : fl.Pflag[x] = TRUE}}
        \cup {<<k, <<"temperature", NoIdx>>>> :
                k \in {x \in Keys : fl.Tflag[x] = TRUE}}

\* The state variables release_state unfixes for a flag dictionary.
Unfixed(fl) ==
    {<<k, <<"flow_mol", NoIdx>>>> : k \in {x \in Keys : fl.Fflag[x] = FALSE}}
        \cup {<<kj[1], <<"mole_frac", kj[2]>>>> :
                kj \in {x \in Keys \X component_list : fl.Xflag[x] = FALSE}}
        \cup {<<k, <<"pressure", NoIdx>>>> :
                k \in {x \in Keys : fl.Pflag[x] = FALSE}}
        \cup {<<k, <<"temperature", NoIdx>>>> :
                k \in {x \in Keys : fl.Tflag[x] = FALSE}}

\* Fault model: release_state without the test for None, unfixing every
\* state variable when no flag is given.
ReleaseState_NoneReleasesAll(fx, fl) ==
    IF fl.none THEN fx \ (Keys \X StateVars) ELSE fx \ Unfixed(fl)

\* Fault model: release_state unfixes nothing.
ReleaseState_Keeps(fx, fl) == fx

\* release_state: the fixed flags it leaves.
ReleaseState(fx, fl) == IF fl.none THEN fx ELSE fx \ Unfixed(fl)

\* A solve moves the value of an unfixed Gij_coeff that occurs in an active
\* constraint (its own eq_Gij_coeff, or eq_A / eq_B of the block); a fixed
\* variable keeps its value.
Solved(gv, gf, act) ==
    [kij \in DOMAIN gv |->
        IF /\ kij \notin gf
           /\ \/ kij[2] # kij[3] /\ <<kij[1], "eq_Gij_coeff">> \in act
              \/ <<kij[1], "eq_A">> \in act
              \/ <<kij[1], "eq_B">> \in act
        THEN "solved"
        ELSE gv[kij]]

\* A solve moves the value of an unfixed activity_coeff_comp that occurs in
\* an active constraint (eq_activity_coeff, eq_phase_equilibrium through
\* fug_liq, or eq_temperature_dew, whose rule divides by
\* activity_coeff_comp[i]); a fixed variable keeps its value.
ActivityCoeffOccursIn ==
    {"eq_activity_coeff", "eq_phase_equilibrium", "eq_temperature_dew"}

SolvedAc(av, acf, act) ==
    [k \in DOMAIN av |->
        IF /\ k \notin acf
           /\ \E c \in ActivityCoeffOccursIn : <<k, c>> \in act
        THEN "solved"
        ELSE av[k]]

PPInit ==
    /\ config \in Configs
    /\ pc = "unbuilt"
    /\ exists = {}
    /\ fixed = {}
    /\ value = <<>>
    /\ ac_fixed = {}
    /\ ac_value = <<>>
    /\ Gij_fixed = {}
    /\ Gij_value = <<>>
    /\ active = {}
    /\ flags = NoFlags
    /\ args = NoArgs
    /\ pre = NoPre
    /\ results = None
    /\ n_solves = 0
    /\ ret = "-"
    /\ fs = FsIdle
    /\ nlp = NlpIdle

\* ActivityCoeffStateBlockData.build, for every index of the state block.
build ==
    /\ pc = "unbuilt"
    /\ IF InconsistentInputs(config)
       THEN /\ pc' = "build_error"
            /\ ret' = "ConfigurationError"
            /\ UNCHANGED <<exists, fixed, value, ac_value, Gij_fixed,
                           Gij_value, active>>
       ELSE /\ pc' = "built"
            /\ exists' = BuiltConstraints(config)
            /\ fixed' = {}
            /\ value' = [kv \in Keys \X StateVars |-> "built"]
            /\ Gij_fixed' = {<<k, ij[1], ij[2]>> :
                               k \in Keys, ij \in rule_Gij_coeff_fixes(config)}
            /\ Gij_value' = [kij \in {<<k, ij[1], ij[2]>> :
                                        k \in Keys, ij \in GijIndex(config)}
                               |-> "1"]
            /\ ac_value' = [k \in (IF MakesActivityEq(config)
                                     THEN Keys ELSE {}) |-> "built"]
            /\ active' = Keys \X BuiltConstraints(config)
            /\ UNCHANGED ret
    /\ UNCHANGED <<config, ac_fixed, flags, args, pre, results, n_solves, fs,
                   nlp>>

\* The caller fixes some variables of the built blocks before initialize: any
\* set of state variables, and possibly the activity coefficients.
caller_fix ==
    /\ pc = "built"
    /\ \E fx \in SUBSET (Keys \X StateVars),
          acf \in (IF MakesActivityEq(config) THEN {{}, Keys} ELSE {{}}) :
          /\ fixed' = fx
          /\ value' = [kv \in DOMAIN value |->
                          IF kv \in fx THEN "caller" ELSE value[kv]]
          /\ ac_fixed' = acf
          /\ ac_value' = [k \in DOMAIN ac_value |->
                             IF k \in acf THEN "caller" ELSE ac_value[k]]
    /\ pc' = "ready"
    /\ UNCHANGED <<config, exists, Gij_fixed, Gij_value, active, flags, args,
                   pre, results, n_solves, ret, fs, nlp>>

\* Fault model: eq_mol_frac_out is left active by initialize.
OutletConstraints_NotDeactivated == {}

\* eq_mol_frac_out of the blocks whose defined_state is False.
OutletConstraints ==
    IF config.defined_state = FALSE THEN Keys \X {"eq_mol_frac_out"} ELSE {}

\* initialize, up to the first solve: deactivate eq_mol_frac_out, fix the
\* state variables and record the flags (or check the degrees of freedom),
\* deactivate the families left out of the first solve.
initialize_fix(state_vars_fixed) ==
    LET act1 == active \ OutletConstraints
    IN
    /\ pc = "ready"
    /\ args' = [args EXCEPT !.state_vars_fixed = state_vars_fixed]
    /\ pre' = [fixed |-> fixed, ac_fixed |-> ac_fixed, active |-> active]
    /\ n_solves' = 0
    /\ IF state_vars_fixed = FALSE
       THEN /\ flags' = RecordFlags(fixed)
            /\ fixed' = Keys \X StateVars
            /\ value' = [kv \in DOMAIN value |->
                            IF kv \in fixed THEN value[kv] ELSE "init"]
            /\ active' = act1 \ Named(DeactivatedForFirstSolve)
            /\ pc' = "step1"
            /\ UNCHANGED ret
       ELSE IF \E k \in Keys :
                  degrees_of_freedom(config, k, fixed, ac_fixed, Gij_fixed,
                                     act1) # 0
            THEN /\ active' = act1
                 /\ pc' = "raised"
                 /\ ret' = "Exception"
                 /\ UNCHANGED <<flags, fixed, value>>
            ELSE /\ active' = act1 \ Named(DeactivatedForFirstSolve)
                 /\ pc' = "step1"
                 /\ UNCHANGED <<flags, fixed, value, ret>>
    /\ UNCHANGED <<config, exists, ac_fixed, ac_value, Gij_fixed, Gij_value,
                   results, fs, nlp>>

\* One call of solve_indexed_blocks: any termination condition.
solve(act) ==
    /\ results' \in TerminationCondition
    /\ n_solves' = n_solves + 1
    /\ Gij_value' = Solved(Gij_value, Gij_fixed, act)

\* initialize, step 1: the phase-equilibrium solve, for a two-phase block.
initialize_step1 ==
    /\ pc = "step1"
    /\ IF FirstSolveIssued(config)
       THEN solve(active)
       ELSE UNCHANGED <<results, n_solves, Gij_value>>
    /\ ac_value' = IF FirstSolveIssued(config)
                   THEN SolvedAc(ac_value, ac_fixed, active)
                   ELSE ac_value
    /\ pc' = "step2"
    /\ UNCHANGED <<config, exists, fixed, value, ac_fixed, Gij_fixed, active,
                   flags, args, pre, ret, fs, nlp>>

\* initialize, step 2: activate the balances and the phase equilibrium, fix
\* the activity coefficients of a non-ideal model at 1, solve.  The loop
\* refers to activity_coeff_comp of the first block right after activating
\* that block's families; a block without it ends the call there.
initialize_step2 ==
    /\ pc = "step2"
    /\ IF FixesActivityCoeff(config) /\ ~MakesActivityEq(config)
       THEN /\ active' = active \cup
                           {kc \in Named(ActivatedForSecondSolve) : kc[1] = 1}
            /\ pc' = "raised"
            /\ ret' = "AttributeError"
            /\ UNCHANGED <<ac_fixed, ac_value, results, n_solves, Gij_value>>
       ELSE /\ active' = active \cup Named(ActivatedForSecondSolve)
            /\ ac_fixed' = IF FixesActivityCoeff(config)
                           THEN Keys ELSE ac_fixed
            /\ ac_value' = IF FixesActivityCoeff(config)
                           THEN [k \in DOMAIN ac_value |-> "1"]
                           ELSE SolvedAc(ac_value, ac_fixed, active')
            /\ solve(active')
            /\ pc' = "step3"
            /\ UNCHANGED ret
    /\ UNCHANGED <<config, exists, fixed, value, Gij_fixed, flags, args, pre,
                   fs, nlp>>

\* Fault model: step 3 raises when its solve is not optimal.
initialize_step3_Aborts ==
    /\ pc = "step3"
    /\ active' = IF config.activity_coeff_model # "Ideal"
                 THEN active \cup Named(ActivatedForThirdSolve)
                 ELSE active
    /\ solve(active')
    /\ ac_value' = SolvedAc(ac_value, ac_fixed, active')
    /\ pc' = IF results' = "optimal" THEN "step4" ELSE "raised"
    /\ UNCHANGED <<config, exists, fixed, value, ac_fixed, Gij_fixed, flags,
                   args, pre, ret, fs, nlp>>

\* initialize, step 3: activate eq_Gij_coeff, eq_A, eq_B of a non-ideal
\* model, solve.
initialize_step3 ==
    /\ pc = "step3"
    /\ active' = IF config.activity_coeff_model # "Ideal"
                 THEN active \cup Named(ActivatedForThirdSolve)
                 ELSE active
    /\ solve(active')
    /\ ac_value' = SolvedAc(ac_value, ac_fixed, active')
    /\ pc' = "step4"
    /\ UNCHANGED <<config, exists, fixed, value, ac_fixed, Gij_fixed, flags,
                   args, pre, ret, fs, nlp>>

\* initialize, step 4: activate eq_activity_coeff and unfix the activity
\* coefficients of a non-ideal model, solve.
initialize_step4 ==
    /\ pc = "step4"
    /\ IF config.activity_coeff_model # "Ideal"
       THEN /\ active' = active \cup (Keys \X {"eq_activity_coeff"})
            /\ ac_fixed' = {}
       ELSE UNCHANGED <<active, ac_fixed>>
    /\ solve(active')
    /\ ac_value' = SolvedAc(ac_value, ac_fixed', active')
    /\ pc' = "step5"
    /\ UNCHANGED <<config, exists, fixed, value, Gij_fixed, flags, args, pre,
                   ret, fs, nlp>>

\* initialize, step 5: activate the enthalpy and entropy constraints, solve.
initialize_step5 ==
    /\ pc = "step5"
    /\ active' = active \cup Named(ActivatedForFifthSolve)
    /\ solve(active')
    /\ ac_value' = SolvedAc(ac_value, ac_fixed, active')
    /\ pc' = "finish"
    /\ UNCHANGED <<config, exists, fixed, value, ac_fixed, Gij_fixed, flags,
                   args, pre, ret, fs, nlp>>

\* initialize, the end: reactivate eq_mol_frac_out; return the flags when
\* hold_state, else release the state.  hold_state is an argument of the
\* call that nothing reads before this point; it is drawn where it is read.
initialize_return(hold_state) ==
    /\ pc = "finish"
    /\ args' = [args EXCEPT !.hold_state = hold_state]
    /\ active' = active \cup OutletConstraints
    /\ IF args.state_vars_fixed = FALSE
       THEN IF hold_state = TRUE
            THEN /\ ret' = "flags"
                 /\ UNCHANGED fixed
            ELSE /\ fixed' = ReleaseState(fixed, flags)
                 /\ ret' = None
       ELSE /\ ret' = None
            /\ UNCHANGED fixed
    /\ pc' = "returned"
    /\ UNCHANGED <<config, exists, value, ac_fixed, ac_value, Gij_fixed,
                   Gij_value,
                   flags, pre, results, n_solves, fs, nlp>>

\* release_state(flags), called by the caller of initialize with what
\* initialize returned, or with None.
release_state(passed) ==
    /\ pc = "returned"
    /\ passed = "flags" => ret = "flags"
    /\ fixed' = ReleaseState(fixed, IF passed = "flags" THEN flags ELSE NoFlags)
    /\ args' = [args EXCEPT !.released = passed]
    /\ pc' = "released"
    /\ UNCHANGED <<config, exists, value, ac_fixed, ac_value, Gij_fixed,
                   Gij_value,
                   active, flags, pre, results, n_solves, ret, fs, nlp>>

PPNext ==
    \/ build
    \/ caller_fix
    \/ \E s \in BOOLEAN : initialize_fix(s)
    \/ initialize_step1
    \/ initialize_step2
    \/ initialize_step3
    \/ initialize_step4
    \/ initialize_step5
    \/ \E h \in BOOLEAN : initialize_return(h)
    \/ \E p \in {"flags", None} : release_state(p)

----
\* The power plant flowsheet: create_model, set_model_input, initialize,
\* build_plant_model.  The flowsheet is steady state (one time point), so a
\* slice [:] names one variable.

\* The unit models create_model declares, with the options that decide their
\* size.
Turbines ==
    {"turbine_1", "turbine_2", "turbine_3", "turbine_4", "turbine_5",
     "turbine_6", "turbine_7", "turbine_8", "turbine_9"}

FWH_Mixers_list == {"fwh1_mix", "fwh2_mix", "fwh3_mix", "fwh6_mix", "fwh7_mix"}

FWH_list == {"fwh1", "fwh2", "fwh3", "fwh4", "fwh6", "fwh7", "fwh8"}

splitter_list ==
    {"t1_splitter", "t2_splitter", "t3_splitter", "t5_splitter",
     "t6_splitter", "t7_splitter", "t8_splitter"}

Units ==
    Turbines \cup {"boiler", "reheater", "condenser_mix", "condenser",
                   "cond_pump", "fwh5_da", "bfp", "bfpt", "t4_splitter"}
        \cup FWH_Mixers_list \cup FWH_list \cup splitter_list

UnitModel(u) ==
    CASE u \in Turbines \cup {"bfpt", "bfp", "cond_pump"} ->
             [kind |-> "PressureChanger", inlets |-> 1, outlets |-> 1,
              has_pressure_change |-> TRUE]
      [] u \in {"boiler", "reheater"} ->
             [kind |-> "Heater", inlets |-> 1, outlets |-> 1,
              has_pressure_change |-> TRUE]
      [] u = "condenser" ->
             [kind |-> "Heater", inlets |-> 1, outlets |-> 1,
              has_pressure_change |-> FALSE]
      [] u = "condenser_mix" ->
             [kind |-> "Mixer", inlets |-> 4, outlets |-> 1,
              has_pressure_change |-> FALSE]
      [] u \in FWH_Mixers_list ->
             [kind |-> "Mixer", inlets |-> 2, outlets |-> 1,
              has_pressure_change |-> FALSE]
      [] u = "fwh5_da" ->
             [kind |-> "Mixer", inlets |-> 3, outlets |-> 1,
              has_pressure_change |-> FALSE]
      [] u \in FWH_list ->
             [kind |-> "HeatExchanger", inlets |-> 2, outlets |-> 2,
              has_pressure_change |-> TRUE]
      [] u \in splitter_list ->
             [kind |-> "HelmSplitter", inlets |-> 1, outlets |-> 2,
              has_pressure_change |-> FALSE]
      [] u = "t4_splitter" ->
             [kind |-> "HelmSplitter", inlets |-> 1, outlets |-> 3,
              has_pressure_change |-> FALSE]

\* The inlet ports of a unit: the inlet_list of a Mixer, inlet_1 (shell) and
\* inlet_2 (tube) of a HeatExchanger, inlet otherwise.
inlet_ports(u) ==
    CASE u = "condenser_mix" -> {"main", "bfpt", "drain", "makeup"}
      [] u \in FWH_Mixers_list -> {"steam", "drain"}
      [] u = "fwh5_da" -> {"steam", "drain", "feedwater"}
      [] u \in FWH_list -> {"inlet_1", "inlet_2"}
      [] OTHER -> {"inlet"}

\* The outlet ports of a unit: outlet_1 .. outlet_n of a splitter with
\* num_outlets = n (2 unless given), outlet_1 and outlet_2 of a
\* HeatExchanger, outlet otherwise.
outlet_ports(u) ==
    CASE u \in splitter_list \cup FWH_list -> {"outlet_1", "outlet_2"}
      [] u = "t4_splitter" -> {"outlet_1", "outlet_2", "outlet_3"}
      [] OTHER -> {"outlet"}

\* Variables minus equality constraints of one unit model on its own, its
\* ports unconnected: three state variables (flow_mol, pressure, enth_mol)
\* per inlet, plus
\*   Heater: heat_duty, and deltaP with has_pressure_change;
\*   PressureChanger: the pressure change and the efficiency;
\*   Mixer without momentum mixing: the outlet pressure;
\*   HelmSplitter: all split fractions but one;
\*   HeatExchanger: area, overall_heat_transfer_coefficient, two deltaP.
UnitFreedom(u) ==
    LET um == UnitModel(u)
    IN  3 * um.inlets +
        CASE um.kind = "Heater" ->
                 IF um.has_pressure_change THEN 2 ELSE 1
          [] um.kind = "PressureChanger" -> 2
          [] um.kind = "Mixer" -> 1
          [] um.kind = "HelmSplitter" -> um.outlets - 1
          [] um.kind = "HeatExchanger" -> 4

\* The constraints create_model adds to the units and to the flowsheet.
FlowsheetConstraints ==
    {"boiler.boiler_temperature_constraint",
     "reheater.reheater_temperature_constraint",
     "condenser_mix.mixer_pressure_constraint",
     "condenser.cond_vaporfrac_constraint",
     "fwh1_mix.mixer_pressure_constraint",
     "fwh2_mix.mixer_pressure_constraint",
     "fwh3_mix.mixer_pressure_constraint",
     "fwh6_mix.mixer_pressure_constraint",
     "fwh7_mix.mixer_pressure_constraint",
     "fwh1.fwh1_vaporfrac_constraint", "fwh2.fwh2_vaporfrac_constraint",
     "fwh3.fwh3_vaporfrac_constraint", "fwh4.fwh4_vaporfrac_constraint",
     "fwh6.fwh6_vaporfrac_constraint", "fwh7.fwh7_vaporfrac_constraint",
     "fwh8.fwh8_vaporfrac_constraint",
     "fwh1.fwh1_s2pdrop_constraint", "fwh2.fwh2_s2pdrop_constraint",
     "fwh3.fwh3_s2pdrop_constraint", "fwh4.fwh4_s2pdrop_constraint",
     "fwh6.fwh6_s2pdrop_constraint", "fwh7.fwh7_s2pdrop_constraint",
     "fwh8.fwh8_s2pdrop_constraint",
     "fwh1.fwh1_s1pdrop_constraint", "fwh2.fwh2_s1pdrop_constraint",
     "fwh3.fwh3_s1pdrop_constraint", "fwh4.fwh4_s1pdrop_constraint",
     "fwh6.fwh6_s1pdrop_constraint", "fwh7.fwh7_s1pdrop_constraint",
     "fwh8.fwh8_s1pdrop_constraint",
     "fwh5_da.fwh5mixer_pressure_constraint",
     "constraint_out_pressure", "constraint_bfp_power"}

\* _create_arcs: <<source port, destination port>>.
Arcs ==
    {<<"boiler.outlet", "turbine_1.inlet">>,
     <<"turbine_1.outlet", "t1_splitter.inlet">>,
     <<"t1_splitter.outlet_1", "turbine_2.inlet">>,
     <<"t1_splitter.outlet_2", "fwh8.inlet_1">>,
     <<"turbine_2.outlet", "t2_splitter.inlet">>,
     <<"t2_splitter.outlet_1", "reheater.inlet">>,
     <<"t2_splitter.outlet_2", "fwh7_mix.steam">>,
     <<"reheater.outlet", "turbine_3.inlet">>,
     <<"turbine_3.outlet", "t3_splitter.inlet">>,
     <<"t3_splitter.outlet_1", "turbine_4.inlet">>,
     <<"t3_splitter.outlet_2", "fwh6_mix.steam">>,
     <<"turbine_4.outlet", "t4_splitter.inlet">>,
     <<"t4_splitter.outlet_1", "turbine_5.inlet">>,
     <<"t4_splitter.outlet_2", "fwh5_da.steam">>,
     <<"t4_splitter.outlet_3", "bfpt.inlet">>,
     <<"turbine_5.outlet", "t5_splitter.inlet">>,
     <<"t5_splitter.outlet_1", "turbine_6.inlet">>,
     <<"t5_splitter.outlet_2", "fwh4.inlet_1">>,
     <<"turbine_6.outlet", "t6_splitter.inlet">>,
     <<"t6_splitter.outlet_1", "turbine_7.inlet">>,
     <<"t6_splitter.outlet_2", "fwh3_mix.steam">>,
     <<"turbine_7.outlet", "t7_splitter.inlet">>,
     <<"t7_splitter.outlet_1", "turbine_8.inlet">>,
     <<"t7_splitter.outlet_2", "fwh2_mix.steam">>,
     <<"turbine_8.outlet", "t8_splitter.inlet">>,
     <<"t8_splitter.outlet_1", "turbine_9.inlet">>,
     <<"t8_splitter.outlet_2", "fwh1_mix.steam">>,
     <<"turbine_9.outlet", "condenser_mix.main">>,
     <<"fwh1.outlet_1", "condenser_mix.drain">>,
     <<"bfpt.outlet", "condenser_mix.bfpt">>,
     <<"condenser_mix.outlet", "condenser.inlet">>,
     <<"condenser.outlet", "cond_pump.inlet">>,
     <<"cond_pump.outlet", "fwh1.inlet_2">>,
     <<"fwh1_mix.outlet", "fwh1.inlet_1">>,
     <<"fwh2_mix.outlet", "fwh2.inlet_1">>,
     <<"fwh3_mix.outlet", "fwh3.inlet_1">>,
     <<"fwh6_mix.outlet", "fwh6.inlet_1">>,
     <<"fwh7_mix.outlet", "fwh7.inlet_1">>,
     <<"fwh2.outlet_1", "fwh1_mix.drain">>,
     <<"fwh3.outlet_1", "fwh2_mix.drain">>,
     <<"fwh4.outlet_1", "fwh3_mix.drain">>,
     <<"fwh6.outlet_1", "fwh5_da.drain">>,
     <<"fwh7.outlet_1", "fwh6_mix.drain">>,
     <<"fwh8.outlet_1", "fwh7_mix.drain">>,
     <<"fwh1.outlet_2", "fwh2.inlet_2">>,
     <<"fwh2.outlet_2", "fwh3.inlet_2">>,
     <<"fwh3.outlet_2", "fwh4.inlet_2">>,
     <<"fwh4.outlet_2", "fwh5_da.feedwater">>,
     <<"fwh5_da.outlet", "bfp.inlet">>, <<"bfp.outlet", "fwh6.inlet_2">>,
     <<"fwh6.outlet_2", "fwh7.inlet_2">>,
     <<"fwh7.outlet_2", "fwh8.inlet_2">>,
     <<"fwh8.outlet_2", "boiler.inlet">>}

\* The variables of a port, one equality constraint each when an Arc is
\* expanded.
PortVars == {"flow_mol", "pressure", "enth_mol"}

\* set_model_input: the variables it fixes.
SetModelInputFixes ==
    {"boiler.inlet.flow_mol", "boiler.outlet.pressure", "reheater.deltaP",
     "turbine_1.ratioP", "turbine_1.efficiency_isentropic",
     "turbine_2.ratioP", "turbine_2.efficiency_isentropic",
     "turbine_3.ratioP", "turbine_3.efficiency_isentropic",
     "turbine_4.ratioP", "turbine_4.efficiency_isentropic",
     "turbine_5.ratioP", "turbine_5.efficiency_isentropic",
     "turbine_6.ratioP", "turbine_6.efficiency_isentropic",
     "turbine_7.ratioP", "turbine_7.efficiency_isentropic",
     "turbine_8.ratioP", "turbine_8.efficiency_isentropic",
     "turbine_9.ratioP", "turbine_9.efficiency_isentropic",
     "cond_pump.efficiency_pump", "cond_pump.deltaP",
     "condenser_mix.makeup.pressure", "condenser_mix.makeup.enth_mol",
     "fwh1.area", "fwh1.overall_heat_transfer_coefficient", "fwh2.area",
     "fwh2.overall_heat_transfer_coefficient", "fwh3.area",
     "fwh3.overall_heat_transfer_coefficient", "fwh4.area",
     "fwh4.overall_heat_transfer_coefficient",
     "t4_splitter.split_fraction[outlet_2]", "bfp.efficiency_pump",
     "bfp.outlet.pressure", "bfpt.efficiency_isentropic", "fwh6.area",
     "fwh6.overall_heat_transfer_coefficient", "fwh7.area",
     "fwh7.overall_heat_transfer_coefficient", "fwh8.area",
     "fwh8.overall_heat_transfer_coefficient"}

\* initialize: its statements in order.  set_port is copy_port_values
\* (destination, source); initialize is the unit model's own routine.
InitializeProgram ==
    <<[line |-> 781, op |-> "fix", a |-> <<"boiler.inlet.pressure">>],
      [line |-> 782, op |-> "fix", a |-> <<"boiler.inlet.enth_mol">>],
      [line |-> 783, op |-> "initialize", a |-> <<"boiler">>],
      [line |-> 784, op |-> "unfix", a |-> <<"boiler.inlet.pressure">>],
      [line |-> 785, op |-> "unfix", a |-> <<"boiler.inlet.enth_mol">>],
      [line |-> 795, op |-> "fix", a |-> <<"t1_splitter.split_fraction[outlet_2]">>],
      [line |-> 796, op |-> "fix", a |-> <<"t2_splitter.split_fraction[outlet_2]">>],
      [line |-> 797, op |-> "fix", a |-> <<"t3_splitter.split_fraction[outlet_2]">>],
      [line |-> 798, op |-> "fix", a |-> <<"t4_splitter.split_fraction[outlet_1]">>],
      [line |-> 799, op |-> "fix", a |-> <<"t5_splitter.split_fraction[outlet_2]">>],
      [line |-> 800, op |-> "fix", a |-> <<"t6_splitter.split_fraction[outlet_2]">>],
      [line |-> 801, op |-> "fix", a |-> <<"t7_splitter.split_fraction[outlet_2]">>],
      [line |-> 802, op |-> "fix", a |-> <<"t8_splitter.split_fraction[outlet_2]">>],
      [line |-> 804, op |-> "deactivate", a |-> <<"constraint_out_pressure">>],
      [line |-> 805, op |-> "deactivate", a |-> <<"fwh1.fwh1_vaporfrac_constraint">>],
      [line |-> 806, op |-> "deactivate", a |-> <<"fwh2.fwh2_vaporfrac_constraint">>],
      [line |-> 807, op |-> "deactivate", a |-> <<"fwh3.fwh3_vaporfrac_constraint">>],
      [line |-> 808, op |-> "deactivate", a |-> <<"fwh4.fwh4_vaporfrac_constraint">>],
      [line |-> 809, op |-> "deactivate", a |-> <<"fwh6.fwh6_vaporfrac_constraint">>],
      [line |-> 810, op |-> "deactivate", a |-> <<"fwh7.fwh7_vaporfrac_constraint">>],
      [line |-> 811, op |-> "deactivate", a |-> <<"fwh8.fwh8_vaporfrac_constraint">>],
      [line |-> 814, op |-> "set_port", a |-> <<"turbine_1.inlet", "boiler.outlet">>],
      [line |-> 815, op |-> "initialize", a |-> <<"turbine_1">>],
      [line |-> 817, op |-> "set_port", a |-> <<"t1_splitter.inlet", "turbine_1.outlet">>],
      [line |-> 818, op |-> "initialize", a |-> <<"t1_splitter">>],
      [line |-> 820, op |-> "set_port", a |-> <<"turbine_2.inlet", "t1_splitter.outlet_1">>],
      [line |-> 821, op |-> "initialize", a |-> <<"turbine_2">>],
      [line |-> 823, op |-> "set_port", a |-> <<"t2_splitter.inlet", "turbine_2.outlet">>],
      [line |-> 824, op |-> "initialize", a |-> <<"t2_splitter">>],
      [line |-> 826, op |-> "set_port", a |-> <<"reheater.inlet", "t2_splitter.outlet_1">>],
      [line |-> 827, op |-> "initialize", a |-> <<"reheater">>],
      [line |-> 829, op |-> "set_port", a |-> <<"turbine_3.inlet", "reheater.outlet">>],
      [line |-> 830, op |-> "initialize", a |-> <<"turbine_3">>],
      [line |-> 832, op |-> "set_port", a |-> <<"t3_splitter.inlet", "turbine_3.outlet">>],
      [line |-> 833, op |-> "initialize", a |-> <<"t3_splitter">>],
      [line |-> 835, op |-> "set_port", a |-> <<"turbine_4.inlet", "t3_splitter.outlet_1">>],
      [line |-> 836, op |-> "initialize", a |-> <<"turbine_4">>],
      [line |-> 838, op |-> "set_port", a |-> <<"t4_splitter.inlet", "turbine_4.outlet">>],
      [line |-> 839, op |-> "initialize", a |-> <<"t4_splitter">>],
      [line |-> 841, op |-> "set_port", a |-> <<"turbine_5.inlet", "t4_splitter.outlet_1">>],
      [line |-> 842, op |-> "initialize", a |-> <<"turbine_5">>],
      [line |-> 844, op |-> "set_port", a |-> <<"t5_splitter.inlet", "turbine_5.outlet">>],
      [line |-> 845, op |-> "initialize", a |-> <<"t5_splitter">>],
      [line |-> 847, op |-> "set_port", a |-> <<"turbine_6.inlet", "t5_splitter.outlet_1">>],
      [line |-> 848, op |-> "initialize", a |-> <<"turbine_6">>],
      [line |-> 850, op |-> "set_port", a |-> <<"t6_splitter.inlet", "turbine_6.outlet">>],
      [line |-> 851, op |-> "initialize", a |-> <<"t6_splitter">>],
      [line |-> 853, op |-> "set_port", a |-> <<"turbine_7.inlet", "t6_splitter.outlet_1">>],
      [line |-> 854, op |-> "initialize", a |-> <<"turbine_7">>],
      [line |-> 856, op |-> "set_port", a |-> <<"t7_splitter.inlet", "turbine_7.outlet">>],
      [line |-> 857, op |-> "initialize", a |-> <<"t7_splitter">>],
      [line |-> 859, op |-> "set_port", a |-> <<"turbine_8.inlet", "t7_splitter.outlet_1">>],
      [line |-> 860, op |-> "initialize", a |-> <<"turbine_8">>],
      [line |-> 862, op |-> "set_port", a |-> <<"t8_splitter.inlet", "turbine_8.outlet">>],
      [line |-> 863, op |-> "initialize", a |-> <<"t8_splitter">>],
      [line |-> 865, op |-> "set_port", a |-> <<"turbine_9.inlet", "t8_splitter.outlet_1">>],
      [line |-> 866, op |-> "initialize", a |-> <<"turbine_9">>],
      [line |-> 869, op |-> "set_port", a |-> <<"bfpt.inlet", "t4_splitter.outlet_3">>],
      [line |-> 870, op |-> "initialize", a |-> <<"bfpt">>],
      [line |-> 875, op |-> "set_port", a |-> <<"condenser_mix.bfpt", "bfpt.outlet">>],
      [line |-> 876, op |-> "set_port", a |-> <<"condenser_mix.main", "turbine_9.outlet">>],
      [line |-> 877, op |-> "fix", a |-> <<"condenser_mix.drain.flow_mol">>],
      [line |-> 878, op |-> "fix", a |-> <<"condenser_mix.drain.pressure">>],
      [line |-> 879, op |-> "fix", a |-> <<"condenser_mix.drain.enth_mol">>],
      [line |-> 880, op |-> "initialize", a |-> <<"condenser_mix">>],
      [line |-> 881, op |-> "unfix", a |-> <<"condenser_mix.drain.flow_mol", "condenser_mix.drain.pressure", "condenser_mix.drain.enth_mol">>],
      [line |-> 883, op |-> "set_port", a |-> <<"condenser.inlet", "condenser_mix.outlet">>],
      [line |-> 884, op |-> "initialize", a |-> <<"condenser">>],
      [line |-> 886, op |-> "set_port", a |-> <<"cond_pump.inlet", "condenser.outlet">>],
      [line |-> 887, op |-> "initialize", a |-> <<"cond_pump">>],
      [line |-> 894, op |-> "fix", a |-> <<"fwh1_mix.drain.flow_mol">>],
      [line |-> 895, op |-> "fix", a |-> <<"fwh1_mix.drain.pressure">>],
      [line |-> 896, op |-> "fix", a |-> <<"fwh1_mix.drain.enth_mol">>],
      [line |-> 898, op |-> "set_port", a |-> <<"fwh1_mix.steam", "t8_splitter.outlet_2">>],
      [line |-> 899, op |-> "initialize", a |-> <<"fwh1_mix">>],
      [line |-> 900, op |-> "unfix", a |-> <<"fwh1_mix.drain.flow_mol", "fwh1_mix.drain.pressure", "fwh1_mix.drain.enth_mol">>],
      [line |-> 902, op |-> "set_port", a |-> <<"fwh1.inlet_1", "fwh1_mix.outlet">>],
      [line |-> 903, op |-> "set_port", a |-> <<"fwh1.inlet_2", "cond_pump.outlet">>],
      [line |-> 904, op |-> "initialize", a |-> <<"fwh1">>],
      [line |-> 907, op |-> "fix", a |-> <<"fwh2_mix.drain.flow_mol">>],
      [line |-> 908, op |-> "fix", a |-> <<"fwh2_mix.drain.pressure">>],
      [line |-> 909, op |-> "fix", a |-> <<"fwh2_mix.drain.enth_mol">>],
      [line |-> 910, op |-> "set_port", a |-> <<"fwh2_mix.steam", "t7_splitter.outlet_2">>],
      [line |-> 911, op |-> "initialize", a |-> <<"fwh2_mix">>],
      [line |-> 912, op |-> "unfix", a |-> <<"fwh2_mix.drain.flow_mol", "fwh2_mix.drain.pressure", "fwh2_mix.drain.enth_mol">>],
      [line |-> 913, op |-> "unfix", a |-> <<"fwh2_mix.steam.flow_mol", "fwh2_mix.steam.pressure", "fwh2_mix.steam.enth_mol">>],
      [line |-> 915, op |-> "set_port", a |-> <<"fwh2.inlet_1", "fwh2_mix.outlet">>],
      [line |-> 916, op |-> "set_port", a |-> <<"fwh2.inlet_2", "fwh1.outlet_2">>],
      [line |-> 917, op |-> "initialize", a |-> <<"fwh2">>],
      [line |-> 920, op |-> "fix", a |-> <<"fwh3_mix.drain.flow_mol">>],
      [line |-> 921, op |-> "fix", a |-> <<"fwh3_mix.drain.pressure">>],
      [line |-> 922, op |-> "fix", a |-> <<"fwh3_mix.drain.enth_mol">>],
      [line |-> 923, op |-> "set_port", a |-> <<"fwh3_mix.steam", "t6_splitter.outlet_2">>],
      [line |-> 924, op |-> "initialize", a |-> <<"fwh3_mix">>],
      [line |-> 925, op |-> "unfix", a |-> <<"fwh3_mix.drain.flow_mol", "fwh3_mix.drain.pressure", "fwh3_mix.drain.enth_mol">>],
      [line |-> 928, op |-> "set_port", a |-> <<"fwh3.inlet_1", "fwh3_mix.outlet">>],
      [line |-> 929, op |-> "set_port", a |-> <<"fwh3.inlet_2", "fwh2.outlet_2">>],
      [line |-> 930, op |-> "initialize", a |-> <<"fwh3">>],
      [line |-> 933, op |-> "set_port", a |-> <<"fwh4.inlet_2", "fwh3.outlet_2">>],
      [line |-> 934, op |-> "set_port", a |-> <<"fwh4.inlet_1", "t5_splitter.outlet_2">>],
      [line |-> 935, op |-> "initialize", a |-> <<"fwh4">>],
      [line |-> 941, op |-> "set_port", a |-> <<"fwh5_da.feedwater", "fwh4.outlet_2">>],
      [line |-> 942, op |-> "fix", a |-> <<"fwh5_da.drain.flow_mol">>],
      [line |-> 943, op |-> "fix", a |-> <<"fwh5_da.drain.pressure">>],
      [line |-> 944, op |-> "fix", a |-> <<"fwh5_da.drain.enth_mol">>],
      [line |-> 946, op |-> "set_port", a |-> <<"fwh5_da.steam", "t4_splitter.outlet_2">>],
      [line |-> 947, op |-> "initialize", a |-> <<"fwh5_da">>],
      [line |-> 948, op |-> "unfix", a |-> <<"fwh5_da.drain.flow_mol", "fwh5_da.drain.pressure", "fwh5_da.drain.enth_mol">>],
      [line |-> 951, op |-> "set_port", a |-> <<"bfp.inlet", "fwh5_da.outlet">>],
      [line |-> 952, op |-> "initialize", a |-> <<"bfp">>],
      [line |-> 957, op |-> "fix", a |-> <<"fwh6_mix.drain.flow_mol">>],
      [line |-> 958, op |-> "fix", a |-> <<"fwh6_mix.drain.pressure">>],
      [line |-> 959, op |-> "fix", a |-> <<"fwh6_mix.drain.enth_mol">>],
      [line |-> 960, op |-> "set_port", a |-> <<"fwh6_mix.steam", "t3_splitter.outlet_2">>],
      [line |-> 961, op |-> "initialize", a |-> <<"fwh6_mix">>],
      [line |-> 962, op |-> "unfix", a |-> <<"fwh6_mix.drain.flow_mol", "fwh6_mix.drain.pressure", "fwh6_mix.drain.enth_mol">>],
      [line |-> 964, op |-> "set_port", a |-> <<"fwh6.inlet_1", "fwh6_mix.outlet">>],
      [line |-> 965, op |-> "set_port", a |-> <<"fwh6.inlet_2", "bfp.outlet">>],
      [line |-> 966, op |-> "initialize", a |-> <<"fwh6">>],
      [line |-> 969, op |-> "set_port", a |-> <<"fwh7_mix.steam", "t2_splitter.outlet_2">>],
      [line |-> 970, op |-> "fix", a |-> <<"fwh7_mix.drain.flow_mol">>],
      [line |-> 971, op |-> "fix", a |-> <<"fwh7_mix.drain.pressure">>],
      [line |-> 972, op |-> "fix", a |-> <<"fwh7_mix.drain.enth_mol">>],
      [line |-> 974, op |-> "initialize", a |-> <<"fwh7_mix">>],
      [line |-> 975, op |-> "unfix", a |-> <<"fwh7_mix.drain.flow_mol", "fwh7_mix.drain.pressure", "fwh7_mix.drain.enth_mol">>],
      [line |-> 977, op |-> "set_port", a |-> <<"fwh7.inlet_1", "fwh7_mix.outlet">>],
      [line |-> 978, op |-> "set_port", a |-> <<"fwh7.inlet_2", "fwh6.outlet_2">>],
      [line |-> 979, op |-> "initialize", a |-> <<"fwh7">>],
      [line |-> 982, op |-> "set_port", a |-> <<"fwh8.inlet_2", "fwh7.outlet_2">>],
      [line |-> 983, op |-> "set_port", a |-> <<"fwh8.inlet_1", "t1_splitter.outlet_2">>],
      [line |-> 984, op |-> "initialize", a |-> <<"fwh8">>],
      [line |-> 985, op |-> "unfix", a |-> <<"fwh8.inlet_1.flow_mol", "fwh8.inlet_1.pressure", "fwh8.inlet_1.enth_mol">>],
      [line |-> 995, op |-> "unfix", a |-> <<"t1_splitter.split_fraction[outlet_2]">>],
      [line |-> 996, op |-> "unfix", a |-> <<"t2_splitter.split_fraction[outlet_2]">>],
      [line |-> 997, op |-> "unfix", a |-> <<"t3_splitter.split_fraction[outlet_2]">>],
      [line |-> 998, op |-> "unfix", a |-> <<"t4_splitter.split_fraction[outlet_1]">>],
      [line |-> 999, op |-> "unfix", a |-> <<"t5_splitter.split_fraction[outlet_2]">>],
      [line |-> 1000, op |-> "unfix", a |-> <<"t6_splitter.split_fraction[outlet_2]">>],
      [line |-> 1001, op |-> "unfix", a |-> <<"t7_splitter.split_fraction[outlet_2]">>],
      [line |-> 1002, op |-> "unfix", a |-> <<"t8_splitter.split_fraction[outlet_2]">>],
      [line |-> 1004, op |-> "activate", a |-> <<"constraint_out_pressure">>],
      [line |-> 1006, op |-> "activate", a |-> <<"fwh1.fwh1_vaporfrac_constraint">>],
      [line |-> 1007, op |-> "activate", a |-> <<"fwh2.fwh2_vaporfrac_constraint">>],
      [line |-> 1008, op |-> "activate", a |-> <<"fwh3.fwh3_vaporfrac_constraint">>],
      [line |-> 1009, op |-> "activate", a |-> <<"fwh4.fwh4_vaporfrac_constraint">>],
      [line |-> 1010, op |-> "activate", a |-> <<"fwh6.fwh6_vaporfrac_constraint">>],
      [line |-> 1011, op |-> "activate", a |-> <<"fwh7.fwh7_vaporfrac_constraint">>],
      [line |-> 1012, op |-> "activate", a |-> <<"fwh8.fwh8_vaporfrac_constraint">>],
      [line |-> 1014, op |-> "solve", a |-> <<>>]>>

SumFreedom(S) ==
    LET RECURSIVE Sum(_)
        Sum(T) == IF T = {} THEN 0
                  ELSE LET u == CHOOSE x \in T : TRUE
                       IN  UnitFreedom(u) + Sum(T \ {u})
    IN  Sum(S)

\* degrees_of_freedom(m): free variables minus active equality constraints,
\* over the units, the expanded Arcs, the added constraints and the
\* variables added after initialization.
fs_degrees_of_freedom(f) ==
    SumFreedom(Units) + f.added_vars
        - Cardinality(PortVars) * Cardinality(Arcs)
        - Cardinality(f.active)
        - Cardinality(f.fixed)

\* b ** n for b given in hundredths, in millionths (fixed point).
Power(b, n) ==
    LET RECURSIVE P(_)
        P(k) == IF k = 0 THEN 1000000 ELSE (P(k - 1) * b) \div 100
    IN  P(n)

\* Fault model: the entries of fwh6 and fwh7 are exchanged.
pressure_ratio_list_Exchanged(f) ==
    CASE f = "fwh1" -> Power(50, 1)
      [] f = "fwh2" -> Power(64, 2)
      [] f = "fwh3" -> Power(64, 2)
      [] f = "fwh4" -> Power(64, 2)
      [] f = "fwh6" -> Power(79, 4)
      [] f = "fwh7" -> Power(79, 6)
      [] f = "fwh8" -> Power(80, 2)

\* create_model: pressure_ratio_list, the value of turbine_pressure_ratio of
\* each feedwater heater.
pressure_ratio_list(f) ==
    CASE f = "fwh1" -> Power(50, 1)
      [] f = "fwh2" -> Power(64, 2)
      [] f = "fwh3" -> Power(64, 2)
      [] f = "fwh4" -> Power(64, 2)
      [] f = "fwh6" -> Power(79, 6)
      [] f = "fwh7" -> Power(79, 4)
      [] f = "fwh8" -> Power(80, 2)

\* set_model_input: the value ratioP of each turbine is fixed at.
ratioP_fix(t) ==
    CASE t = "turbine_1" -> Power(80, 5)
      [] t = "turbine_2" -> Power(80, 2)
      [] t = "turbine_3" -> Power(79, 4)
      [] t = "turbine_4" -> Power(79, 6)
      [] t = "turbine_5" -> Power(64, 2)
      [] t = "turbine_6" -> Power(64, 2)
      [] t = "turbine_7" -> Power(64, 2)
      [] t = "turbine_8" -> Power(64, 2)
      [] t = "turbine_9" -> Power(50, 1)

FSInit ==
    /\ fs = [pc |-> "start", ip |-> 0, fixed |-> {}, active |-> {},
             added_vars |-> 0, initialized |-> <<>>, ports_set |-> {},
             results |-> None, solves |-> 0, turbine_pressure_ratio |-> <<>>,
             ratioP |-> <<>>]
    /\ config = [activity_coeff_model |-> "Ideal", valid_phase |-> "Liq",
                 has_phase_equilibrium |-> FALSE, defined_state |-> TRUE]
    /\ pc = "flowsheet"
    /\ exists = {}
    /\ fixed = {}
    /\ value = <<>>
    /\ ac_fixed = {}
    /\ ac_value = <<>>
    /\ Gij_fixed = {}
    /\ Gij_value = <<>>
    /\ active = {}
    /\ flags = NoFlags
    /\ args = NoArgs
    /\ pre = NoPre
    /\ results = None
    /\ n_solves = 0
    /\ ret = "-"
    /\ nlp = NlpIdle

\* create_model: units, constraints (all active) and Arcs; nothing is fixed.
create_model ==
    /\ fs.pc = "start"
    /\ fs' = [fs EXCEPT !.pc = "created", !.fixed = {},
                        !.active = FlowsheetConstraints,
                        !.turbine_pressure_ratio =
                            [f \in FWH_list |-> pressure_ratio_list(f)]]
    /\ UNCHANGED <<ppvars, nlp>>

\* Fault model: makeup.flow_mol is fixed rather than given a value.
set_model_input_FixesMakeup ==
    /\ fs.pc = "created"
    /\ fs' = [fs EXCEPT !.pc = "inputs_set",
                        !.fixed = fs.fixed \cup SetModelInputFixes
                                      \cup {"condenser_mix.makeup.flow_mol"},
                        !.ratioP = [t \in Turbines |-> ratioP_fix(t)]]
    /\ UNCHANGED <<ppvars, nlp>>

\* set_model_input: fix the inputs, the efficiencies and the design
\* variables.
set_model_input ==
    /\ fs.pc = "created"
    /\ fs' = [fs EXCEPT !.pc = "inputs_set",
                        !.fixed = fs.fixed \cup SetModelInputFixes,
                        !.ratioP = [t \in Turbines |-> ratioP_fix(t)]]
    /\ UNCHANGED <<ppvars, nlp>>

\* build_plant_model: assert degrees_of_freedom(m) == 0 before initialize.
assert_before_initialize ==
    /\ fs.pc = "inputs_set"
    /\ fs' = IF fs_degrees_of_freedom(fs) = 0
             THEN [fs EXCEPT !.pc = "initialize", !.ip = 1]
             ELSE [fs EXCEPT !.pc = "AssertionError"]
    /\ UNCHANGED <<ppvars, nlp>>

\* The statement initialize is at.
Stmt == InitializeProgram[fs.ip]

AtStmt(op) ==
    /\ fs.pc = "initialize"
    /\ fs.ip \in 1..Len(InitializeProgram)
    /\ Stmt.op = op

Range(q) == {q[i] : i \in DOMAIN q}

\* Fault model: a fix statement of initialize that does nothing.
fs_fix_Skipped ==
    /\ AtStmt("fix")
    /\ fs' = [fs EXCEPT !.ip = fs.ip + 1]
    /\ UNCHANGED <<ppvars, nlp>>

fs_fix ==
    /\ AtStmt("fix")
    /\ fs' = [fs EXCEPT !.ip = fs.ip + 1,
                        !.fixed = fs.fixed \cup Range(Stmt.a)]
    /\ UNCHANGED <<ppvars, nlp>>

\* Fault model: an unfix statement of initialize that does nothing.
fs_unfix_Skipped ==
    /\ AtStmt("unfix")
    /\ fs' = [fs EXCEPT !.ip = fs.ip + 1]
    /\ UNCHANGED <<ppvars, nlp>>

fs_unfix ==
    /\ AtStmt("unfix")
    /\ fs' = [fs EXCEPT !.ip = fs.ip + 1,
                        !.fixed = fs.fixed \ Range(Stmt.a)]
    /\ UNCHANGED <<ppvars, nlp>>

\* Fault model: a deactivate statement of initialize that does nothing.
fs_deactivate_Skipped ==
    /\ AtStmt("deactivate")
    /\ fs' = [fs EXCEPT !.ip = fs.ip + 1]
    /\ UNCHANGED <<ppvars, nlp>>

\* Fault model: the deactivate statements also switch off the pump power
\* balance.
fs_deactivate_WithPowerBalance ==
    /\ AtStmt("deactivate")
    /\ fs' = [fs EXCEPT !.ip = fs.ip + 1,
                        !.active = fs.active \
                            (Range(Stmt.a) \cup {"constraint_bfp_power"})]
    /\ UNCHANGED <<ppvars, nlp>>

fs_deactivate ==
    /\ AtStmt("deactivate")
    /\ fs' = [fs EXCEPT !.ip = fs.ip + 1,
                        !.active = fs.active \ Range(Stmt.a)]
    /\ UNCHANGED <<ppvars, nlp>>

\* Fault model: an activate statement of initialize that does nothing.
fs_activate_Skipped ==
    /\ AtStmt("activate")
    /\ fs' = [fs EXCEPT !.ip = fs.ip + 1]
    /\ UNCHANGED <<ppvars, nlp>>

fs_activate ==
    /\ AtStmt("activate")
    /\ fs' = [fs EXCEPT !.ip = fs.ip + 1,
                        !.active = fs.active \cup Range(Stmt.a)]
    /\ UNCHANGED <<ppvars, nlp>>

\* Fault model: a port copy that copies nothing.
fs_set_port_Skipped ==
    /\ AtStmt("set_port")
    /\ fs' = [fs EXCEPT !.ip = fs.ip + 1]
    /\ UNCHANGED <<ppvars, nlp>>

\* copy_port_values(destination, source): values only, no flag changes.
fs_set_port ==
    /\ AtStmt("set_port")
    /\ fs' = [fs EXCEPT !.ip = fs.ip + 1,
                        !.ports_set = fs.ports_set \cup {Stmt.a[1]}]
    /\ UNCHANGED <<ppvars, nlp>>

\* Fault model: the call of a unit model's initialize is retried once.
fs_unit_initialize_Retried ==
    /\ AtStmt("initialize")
    /\ \E r \in TerminationCondition :
          fs' = [fs EXCEPT !.ip = fs.ip + 1,
                           !.initialized = Append(Append(fs.initialized,
                                                         Stmt.a[1]),
                                                  Stmt.a[1]),
                           !.results = r]
    /\ UNCHANGED <<ppvars, nlp>>

\* Fault model: the call of a unit model's initialize is left out.
fs_unit_initialize_Skipped ==
    /\ AtStmt("initialize")
    /\ fs' = [fs EXCEPT !.ip = fs.ip + 1]
    /\ UNCHANGED <<ppvars, nlp>>

\* A unit model's initialize: it solves the unit with any termination
\* condition and leaves the fixed and active flags as it found them.
fs_unit_initialize ==
    /\ AtStmt("initialize")
    /\ \E r \in TerminationCondition :
          fs' = [fs EXCEPT !.ip = fs.ip + 1,
                           !.initialized = Append(fs.initialized, Stmt.a[1]),
                           !.results = r]
    /\ UNCHANGED <<ppvars, nlp>>

\* solver.solve(m): the global solve; its termination condition is printed.
fs_solve ==
    /\ AtStmt("solve")
    /\ \E r \in TerminationCondition :
          fs' = [fs EXCEPT !.ip = fs.ip + 1, !.results = r,
                           !.solves = fs.solves + 1]
    /\ UNCHANGED <<ppvars, nlp>>

\* build_plant_model: assert degrees_of_freedom(m) == 0 after initialize.
assert_after_initialize ==
    /\ fs.pc = "initialize"
    /\ fs.ip = Len(InitializeProgram) + 1
    /\ fs' = IF fs_degrees_of_freedom(fs) = 0
             THEN [fs EXCEPT !.pc = "initialized"]
             ELSE [fs EXCEPT !.pc = "AssertionError"]
    /\ UNCHANGED <<ppvars, nlp>>

\* build_plant_model: plant_power_out and production_cons, then return.
add_plant_power_out ==
    /\ fs.pc = "initialized"
    /\ fs' = [fs EXCEPT !.pc = "done",
                        !.added_vars = fs.added_vars + 1,
                        !.active = fs.active \cup {"production_cons"}]
    /\ UNCHANGED <<ppvars, nlp>>

FSNext ==
    \/ create_model
    \/ set_model_input
    \/ assert_before_initialize
    \/ fs_fix
    \/ fs_unfix
    \/ fs_deactivate
    \/ fs_activate
    \/ fs_set_port
    \/ fs_unit_initialize
    \/ fs_solve
    \/ assert_after_initialize
    \/ add_plant_power_out

----
\* The PyNumero test: the model fixture and test_have_pynumero.

\* Largest value a variable of the fixture is given.
MaxX == 4

\* m.x = Var([1, 2, 3], initialize=4.0)
x_initialize == 4

\* An expression is a sum of terms coef * x[1]^e[1] * x[2]^e[2] * x[3]^e[3].
Term(coef, e1, e2, e3) == [coef |-> coef, e |-> <<e1, e2, e3>>]

\* m.c: x[3] ** 2 + x[1] == 25
c_body == <<Term(1, 0, 0, 2), Term(1, 1, 0, 0)>>

\* m.d: x[2] ** 2 + x[1] <= 18.0
d_body == <<Term(1, 0, 2, 0), Term(1, 1, 0, 0)>>

\* Fault model: the objective without its constant term.
o_expr_NoConstant ==
    <<Term(1, 4, 0, 0), Term(-3, 1, 3, 0), Term(1, 0, 0, 2)>>

\* m.o: x[1] ** 4 - 3 * x[1] * x[2] ** 3 + x[3] ** 2 - 8.0
o_expr ==
    <<Term(1, 4, 0, 0), Term(-3, 1, 3, 0), Term(1, 0, 0, 2),
      Term(-8, 0, 0, 0)>>

\* The constraints of the model, in declaration order.
constraint_bodies == <<c_body, d_body>>

Pow(b, n) ==
    LET RECURSIVE P(_)
        P(k) == IF k = 0 THEN 1 ELSE b * P(k - 1)
    IN  P(n)

\* The value of an expression at x.
Evaluate(expr, x) ==
    LET RECURSIVE Sum(_)
        Sum(k) == IF k = 0 THEN 0
                  ELSE Sum(k - 1) +
                       expr[k].coef * Pow(x[1], expr[k].e[1])
                           * Pow(x[2], expr[k].e[2]) * Pow(x[3], expr[k].e[3])
    IN  Sum(Len(expr))

\* The partial derivative of an expression with respect to x[i].
Differentiate(expr, i) ==
    [k \in DOMAIN expr |->
        IF expr[k].e[i] = 0 THEN Term(0, 0, 0, 0)
        ELSE [coef |-> expr[k].coef * expr[k].e[i],
              e |-> [expr[k].e EXCEPT ![i] = @ - 1]]]

\* x[i] occurs in a term of degree above one.
NonlinearIn(expr, i) ==
    \E k \in DOMAIN expr :
        /\ expr[k].coef # 0
        /\ expr[k].e[i] > 0
        /\ expr[k].e[1] + expr[k].e[2] + expr[k].e[3] > 1

\* PyomoNLP numbers the variables as the NL file does: those nonlinear in a
\* constraint and in the objective, then those nonlinear in a constraint
\* only, then those nonlinear in the objective only, then the others, each
\* group in declaration order.
nl_group(i) ==
    LET inCon == \E r \in DOMAIN constraint_bodies :
                     NonlinearIn(constraint_bodies[r], i)
        inObj == NonlinearIn(o_expr, i)
    IN  IF inCon /\ inObj THEN 0
        ELSE IF inCon THEN 1
        ELSE IF inObj THEN 2
        ELSE 3

nl_variable_order ==
    CHOOSE p \in [1..3 -> 1..3] :
        \A a, b \in 1..3 :
            a < b => \/ nl_group(p[a]) < nl_group(p[b])
                     \/ nl_group(p[a]) = nl_group(p[b]) /\ p[a] < p[b]

NLPInit ==
    /\ nlp \in {[pc |-> "model", x |-> <<x1, x2, x3>>, order |-> <<>>,
                  f |-> None, jac |-> <<>>] : x1, x2, x3 \in 0..MaxX}
    /\ fs = FsIdle
    /\ config = [activity_coeff_model |-> "Ideal", valid_phase |-> "Liq",
                 has_phase_equilibrium |-> FALSE, defined_state |-> TRUE]
    /\ pc = "pynumero"
    /\ exists = {}
    /\ fixed = {}
    /\ value = <<>>
    /\ ac_fixed = {}
    /\ ac_value = <<>>
    /\ Gij_fixed = {}
    /\ Gij_value = <<>>
    /\ active = {}
    /\ flags = NoFlags
    /\ args = NoArgs
    /\ pre = NoPre
    /\ results = None
    /\ n_solves = 0
    /\ ret = "-"

\* nlp = PyomoNLP(model)
PyomoNLP ==
    /\ nlp.pc = "model"
    /\ nlp' = [nlp EXCEPT !.pc = "nlp", !.order = nl_variable_order]
    /\ UNCHANGED <<ppvars, fs>>

\* f = nlp.evaluate_objective()
evaluate_objective ==
    /\ nlp.pc = "nlp"
    /\ nlp' = [nlp EXCEPT !.pc = "objective", !.f = Evaluate(o_expr, nlp.x)]
    /\ UNCHANGED <<ppvars, fs>>

\* jac = nlp.evaluate_jacobian().toarray(): one row per constraint, one
\* column per variable in the order of the NLP.
evaluate_jacobian ==
    /\ nlp.pc = "objective"
    /\ nlp' = [nlp EXCEPT
                 !.pc = "jacobian",
                 !.jac = [r \in DOMAIN constraint_bodies |->
                            [col \in 1..3 |->
                                Evaluate(Differentiate(constraint_bodies[r],
                                                       nlp.order[col]),
                                         nlp.x)]]]
    /\ UNCHANGED <<ppvars, fs>>

\* The assertions of test_have_pynumero.
test_have_pynumero ==
    /\ nlp.pc = "jacobian"
    /\ nlp' = [nlp EXCEPT !.pc =
                 IF /\ nlp.f = -504
                    /\ nlp.jac = <<<<0, 8, 1>>, <<8, 0, 1>>>>
                 THEN "passed" ELSE "AssertionError"]
    /\ UNCHANGED <<ppvars, fs>>

NLPNext ==
    \/ PyomoNLP
    \/ evaluate_objective
    \/ evaluate_jacobian
    \/ test_have_pynumero

----
Init == PPInit \/ FSInit \/ NLPInit

Next == PPNext \/ FSNext \/ NLPNext

Spec == Init /\ [][Next]_vars

\* The PyNumero test on its own.
NLPSpec == NLPInit /\ [][NLPNext]_vars

\* The flowsheet on its own.
FSSpec == FSInit /\ [][FSNext]_vars

----
\* Properties of the property package and of the flowsheet.

\* initialize has been called.
InCall ==
    pc \in {"step1", "step2", "step3", "step4", "step5", "finish", "raised",
            "returned", "released"}

\* The flag the dictionary holds for state variable kv[2] of block kv[1].
FlagOf(kv) ==
    CASE kv[2][1] = "flow_mol" -> flags.Fflag[kv[1]]
      [] kv[2][1] = "mole_frac" -> flags.Xflag[<<kv[1], kv[2][2]>>]
      [] kv[2][1] = "pressure" -> flags.Pflag[kv[1]]
      [] kv[2][1] = "temperature" -> flags.Tflag[kv[1]]

\* release_state(flags) has run on the flags initialize returned.
RoundTripDone == pc = "released" /\ args.released = "flags"

\* C1, as stated: after initialize(hold_state=True) and release_state(flags)
\* every variable of every block has the fixed status it had before the call,
\* the activity coefficients included.
C1_RoundTripRestoresEveryVariable ==
    RoundTripDone =>
        /\ fixed = pre.fixed
        /\ ac_fixed = pre.ac_fixed

\* C1, as the code has it: after initialize(hold_state=True) and
\* release_state(flags) every state variable (flow_mol, mole_frac[j],
\* pressure, temperature) of every block has the fixed status it had before
\* the call, and Gij_coeff keeps its status; activity_coeff_comp is left
\* unfixed whatever its status was.
C1_RoundTripRestoresStateVars ==
    RoundTripDone =>
        /\ fixed = pre.fixed
        /\ Gij_fixed = {<<k, i, i>> : k \in Keys,
                          i \in {j \in component_list :
                                   <<j, j>> \in GijIndex(config)}}
        /\ ac_fixed = {}

C1_Witness ==
    /\ RoundTripDone
    /\ pre.fixed # {}
    /\ pre.fixed # Keys \X StateVars
    /\ pre.ac_fixed = Keys
    /\ fixed = pre.fixed

\* C2: release_state(flags) unfixes exactly the state variables whose flag is
\* False and leaves the state variables fixed before initialize fixed; the
\* flag of a variable is True iff the variable was fixed before the call.
C2_ReleaseUnfixesExactlyFlaggedFalse ==
    [][(pc = "returned" /\ pc' = "released" /\ args'.released = "flags") =>
          /\ \A kv \in Keys \X StateVars : FlagOf(kv) = (kv \in pre.fixed)
          /\ fixed' = fixed \ {kv \in Keys \X StateVars : FlagOf(kv) = FALSE}
          /\ pre.fixed \subseteq fixed'
          /\ UNCHANGED <<ac_fixed, Gij_fixed>>]_vars

C2_Witness ==
    /\ RoundTripDone
    /\ <<1, <<"flow_mol", NoIdx>>>> \in pre.fixed
    /\ <<1, <<"pressure", NoIdx>>>> \notin pre.fixed
    /\ <<1, <<"flow_mol", NoIdx>>>> \in fixed
    /\ <<1, <<"pressure", NoIdx>>>> \notin fixed
    /\ flags.Fflag[1] = TRUE
    /\ flags.Pflag[1] = FALSE

\* C3: release_state(None) changes no fixed flag, no value and no active
\* flag, and raises nothing.
C3_ReleaseNoneIsNoOp ==
    [][(pc = "returned" /\ pc' # "returned" /\ args'.released = None) =>
          /\ pc' = "released"
          /\ UNCHANGED <<fixed, value, ac_fixed, Gij_fixed, Gij_value, active,
                         ret>>]_vars

C3_Witness ==
    /\ pc = "released"
    /\ args.released = None
    /\ ret = "flags"
    /\ fixed = Keys \X StateVars
    /\ pre.fixed = {}

\* C4, as stated: initialize(state_vars_fixed=True) raises, before any solve,
\* whenever the degrees of freedom of some block are non-zero when it is
\* called.
C4_RaisesOnNonZeroDofAtCall ==
    (InCall /\ args.state_vars_fixed
        /\ \E k \in Keys :
              degrees_of_freedom(config, k, pre.fixed, pre.ac_fixed,
                                 Gij_fixed, pre.active) # 0)
        => (pc = "raised" /\ ret = "Exception" /\ n_solves = 0)

\* C4, as the code has it: initialize(state_vars_fixed=True) raises Exception
\* exactly when the degrees of freedom of some block, counted with
\* eq_mol_frac_out of a defined_state=False block already deactivated, are
\* non-zero; it raises before any solve and fixes nothing.
C4_RaisesOnNonZeroDofBeforeSolve ==
    (InCall /\ args.state_vars_fixed) =>
        /\ (\E k \in Keys :
               degrees_of_freedom(
                   config, k, pre.fixed, pre.ac_fixed, Gij_fixed,
                   {kc \in pre.active :
                      ~(config.defined_state = FALSE
                          /\ kc[2] = "eq_mol_frac_out")}) # 0)
              <=> ret = "Exception"
        /\ ret = "Exception" =>
              /\ pc = "raised"
              /\ n_solves = 0
              /\ results = None
              /\ fixed = pre.fixed

C4_Witness ==
    /\ pc = "raised"
    /\ ret = "Exception"
    /\ args.state_vars_fixed
    /\ n_solves = 0
    /\ config.defined_state = FALSE
    /\ degrees_of_freedom(config, 1, pre.fixed, pre.ac_fixed, Gij_fixed,
                          pre.active) = 0

\* C5: build with has_phase_equilibrium=True and valid_phase 'Liq' or 'Vap'
\* raises ConfigurationError with no state variable and no constraint of the
\* block created; every other combination builds.
C5_BuildRejectsSinglePhaseEquilibrium ==
    /\ pc = "build_error" =>
          /\ config.has_phase_equilibrium
          /\ config.valid_phase \in {"Liq", "Vap"}
          /\ ret = "ConfigurationError"
          /\ exists = {}
          /\ active = {}
          /\ fixed = {}
          /\ DOMAIN value = {}
          /\ DOMAIN Gij_value = {}
    /\ (pc \in {"built", "ready"} \/ InCall) =>
          /\ ~(config.has_phase_equilibrium
                 /\ config.valid_phase \in {"Liq", "Vap"})
          /\ DOMAIN value = Keys \X StateVars
          /\ exists # {}

C5_Witness ==
    /\ pc = "build_error"
    /\ ret = "ConfigurationError"
    /\ config.valid_phase = "Vap"
    /\ config.has_phase_equilibrium

\* C6: when initialize(state_vars_fixed=False) returns, with hold_state=True
\* it has returned the flags and every state variable of every block is
\* fixed; with hold_state=False it has returned nothing and exactly the
\* variables it fixed are unfixed again.
C6_HoldOrRelease ==
    (pc = "returned" /\ args.state_vars_fixed = FALSE) =>
        IF args.hold_state
        THEN /\ ret = "flags"
             /\ flags.none = FALSE
             /\ fixed = Keys \X StateVars
        ELSE /\ ret = None
             /\ fixed = pre.fixed

C6_Witness ==
    /\ pc = "returned"
    /\ args.state_vars_fixed = FALSE
    /\ args.hold_state = FALSE
    /\ ret = None
    /\ pre.fixed # {}
    /\ pre.fixed # Keys \X StateVars
    /\ fixed = pre.fixed

\* C7: after create_model and set_model_input the flowsheet has zero degrees
\* of freedom; the assertion of build_plant_model never fails, and initialize
\* starts only after it.
C7_ZeroDofAfterSetModelInput ==
    /\ fs.pc = "inputs_set" => fs_degrees_of_freedom(fs) = 0
    /\ fs.pc = "AssertionError" => FALSE
    /\ (fs.pc = "initialize" /\ fs.ip = 1) =>
          /\ fs_degrees_of_freedom(fs) = 0
          /\ fs.initialized = <<>>
          /\ fs.solves = 0

C7_Witness ==
    /\ fs.pc = "initialize"
    /\ fs.ip = 1
    /\ fs.fixed = SetModelInputFixes
    /\ fs_degrees_of_freedom(fs) = 0

\* initialize(m) has returned.
FsInitializeReturned ==
    \/ fs.pc = "initialize" /\ fs.ip = Len(InitializeProgram) + 1
    \/ fs.pc = "initialized"

\* C8: when the flowsheet initialize returns, the degrees of freedom are
\* zero, and the fixed variables and the active constraints are those
\* set_model_input left.
C8_InitializeRestoresFlowsheet ==
    FsInitializeReturned =>
        /\ fs_degrees_of_freedom(fs) = 0
        /\ fs.fixed = SetModelInputFixes
        /\ fs.active = FlowsheetConstraints
        /\ fs.solves = 1

C8_Witness ==
    /\ fs.pc = "initialized"
    /\ fs.solves = 1
    /\ fs.fixed = SetModelInputFixes
    /\ Range(fs.initialized) = Units

\* C9: no termination condition of any solve ends an initialization: after a
\* solve the property-package initialize is never in its raised state, it
\* returns having issued every solve, with the fixed and active flags that
\* depend on the arguments and the pre-call state only; the flowsheet
\* initialize runs every unit's initialize and the global solve and leaves
\* the flags of set_model_input.
C9_NonOptimalDoesNotAbort ==
    /\ (InCall /\ results # None) =>
          pc \in {"step2", "step3", "step4", "step5", "finish", "returned",
                  "released"}
    /\ pc = "returned" =>
          /\ n_solves = IF config.valid_phase \in {"LiqVap", "VapLiq"}
                        THEN 5 ELSE 4
          /\ active = pre.active
          /\ ac_fixed = {}
          /\ fixed = IF args.hold_state /\ ~args.state_vars_fixed
                     THEN Keys \X StateVars ELSE pre.fixed
    /\ fs.pc \in {"initialized", "done"} =>
          /\ Range(fs.initialized) = Units
          /\ fs.solves = 1
          /\ fs.fixed = SetModelInputFixes
          /\ FlowsheetConstraints \subseteq fs.active

C9_Witness ==
    /\ pc = "returned"
    /\ results = "infeasible"
    /\ n_solves = 5
    /\ active = pre.active
    /\ config.activity_coeff_model = "NRTL"

\* C10: for NRTL and Wilson, wherever Gij_coeff is made, Gij_coeff[i, i] is
\* fixed with value 1 and has no eq_Gij_coeff constraint, in every state from
\* build through initialize and release_state.
C10_GijDiagonalFixedAtOne ==
    (/\ pc \in {"built", "ready"} \/ InCall
     /\ config.activity_coeff_model \in {"NRTL", "Wilson"}
     /\ config.valid_phase \in {"LiqVap", "VapLiq"}) =>
        \A k \in Keys, i \in component_list :
            /\ <<k, i, i>> \in DOMAIN Gij_value
            /\ <<k, i, i>> \in Gij_fixed
            /\ Gij_value[<<k, i, i>>] = "1"
            /\ <<i, i>> \notin eq_Gij_coeff_index(config)
            /\ \A j \in component_list \ {i} :
                  <<i, j>> \in eq_Gij_coeff_index(config)

C10_Witness ==
    /\ pc = "released"
    /\ config.activity_coeff_model = "Wilson"
    /\ \A k \in Keys, i \in component_list :
          /\ Gij_value[<<k, i, i>>] = "1"
          /\ \A j \in component_list \ {i} : Gij_value[<<k, i, j>>] = "solved"

\* The state block has been built.
Built == pc \in {"built", "ready"} \/ InCall

\* initialize has returned.
Returned == pc \in {"returned", "released"}

\* C11: every built state block carries exactly one total balance eq_total,
\* which equates flow_mol to the sum of the phase flows over the phase list of
\* the block (the single phase flow for a single-phase block), and eq_total
\* is active when initialize returns.
C11_TotalBalanceBuiltAndActiveAtReturn ==
    Built =>
        /\ "eq_total" \in exists
        /\ FamilySize(config, "eq_total") = 1
        /\ rule_total_mass_balance(config) = phase_list(config)
        /\ Returned => \A k \in Keys : <<k, "eq_total">> \in active

C11_Witness ==
    /\ pc = "returned"
    /\ phase_list(config) = {"Vap"}
    /\ rule_total_mass_balance(config) = {"Vap"}
    /\ \A k \in Keys : <<k, "eq_total">> \in active
    /\ n_solves = 4

\* C12: a two-phase block has one eq_phase_equilibrium constraint per
\* component, and all of them are active when initialize returns.
C12_PhaseEquilibriumPerComponent ==
    (Built /\ Cardinality(phase_list(config)) = 2) =>
        /\ "eq_phase_equilibrium" \in exists
        /\ eq_phase_equilibrium_index(config) = component_list
        /\ FamilySize(config, "eq_phase_equilibrium") =
              Cardinality(component_list)
        /\ Returned => \A k \in Keys : <<k, "eq_phase_equilibrium">> \in active

C12_Witness ==
    /\ pc = "returned"
    /\ Cardinality(phase_list(config)) = 2
    /\ n_solves = 5
    /\ \A k \in Keys : <<k, "eq_phase_equilibrium">> \in active

\* C13: for the test model at x1 = x2 = x3 = 4, the objective evaluates to
\* exactly -504 and the constraint Jacobian is the 2x3 matrix with rows
\* (0, 8, 1) and (8, 0, 1).
C13_ObjectiveAndJacobianAtFour ==
    (/\ nlp.pc \in {"jacobian", "passed", "AssertionError"}
     /\ nlp.x = <<x_initialize, x_initialize, x_initialize>>) =>
        /\ nlp.f = -504
        /\ Len(nlp.jac) = 2
        /\ nlp.jac[1] = <<0, 8, 1>>
        /\ nlp.jac[2] = <<8, 0, 1>>

C13_Witness ==
    /\ nlp.pc = "passed"
    /\ nlp.x = <<4, 4, 4>>
    /\ nlp.f = -504
    /\ nlp.order = <<2, 3, 1>>

\* The eight turbine outlet splitters.
AllSplitters == splitter_list \cup {"t4_splitter"}

\* The name of split_fraction[:, o] of splitter s.
SplitFraction(s, o) == s \o ".split_fraction[" \o o \o "]"

SplitFractionVars ==
    {SplitFraction(s, o) : s \in AllSplitters,
                           o \in {"outlet_1", "outlet_2", "outlet_3"}}

\* The vaporfrac constraints of the feedwater heaters.
VaporfracConstraints ==
    {f \o "." \o f \o "_vaporfrac_constraint" : f \in FWH_list}

\* The name of port q of unit u, and the unit a port name belongs to.
PortName(u, q) == u \o "." \o q

UnitOfPort(p) ==
    CHOOSE u \in Units :
        \E q \in inlet_ports(u) \cup outlet_ports(u) : p = PortName(u, q)

IsOutletPort(p) ==
    \E u \in Units : \E q \in outlet_ports(u) : p = PortName(u, q)

IsInletPort(p) ==
    \E u \in Units : \E q \in inlet_ports(u) : p = PortName(u, q)

InitializedUnits == Range(fs.initialized)

\* Sequential propagation: initialize is about to initialize a turbine or a
\* splitter, or has initialized one, and has units left to initialize.
InPropagation ==
    /\ fs.pc = "initialize"
    /\ InitializedUnits # Units
    /\ \/ InitializedUnits \cap (Turbines \cup AllSplitters) # {}
       \/ AtStmt("initialize") /\ Stmt.a[1] \in Turbines \cup AllSplitters

\* C14, as stated: from before any turbine or splitter is initialized and
\* through the sequential propagation, the vaporfrac constraint of every
\* feedwater heater and the power balance between the boiler feed pump and
\* its turbine (constraint_bfp_power) are deactivated.
C14_PowerBalanceDeactivatedInPropagation ==
    InPropagation =>
        (VaporfracConstraints \cup {"constraint_bfp_power"}) \cap fs.active = {}

\* C14, as the code has it: from before any turbine or splitter is
\* initialized and through the sequential propagation, the vaporfrac
\* constraint of every feedwater heater and constraint_out_pressure (the
\* outlet pressure of the boiler feed pump turbine equals the condenser
\* mixer pressure) are deactivated, and no statement reactivates one of them
\* before every unit is initialized; constraint_bfp_power stays active
\* throughout initialize.
C14_OutPressureDeactivatedInPropagation ==
    /\ InPropagation =>
          (VaporfracConstraints \cup {"constraint_out_pressure"})
              \cap fs.active = {}
    /\ AtStmt("activate") => InitializedUnits = Units
    /\ fs.pc = "initialize" => "constraint_bfp_power" \in fs.active

C14_Witness ==
    /\ InPropagation
    /\ AtStmt("initialize")
    /\ Stmt.a[1] = "fwh8"
    /\ VaporfracConstraints \cap fs.active = {}
    /\ "constraint_out_pressure" \notin fs.active
    /\ "constraint_bfp_power" \in fs.active

\* C15: while the units are propagated, exactly one split fraction of each
\* of the eight splitters is fixed over what set_model_input fixed; when the
\* global solve is issued those are unfixed again and nothing else is; the
\* deaerator extraction fraction (t4_splitter outlet_2) fixed by
\* set_model_input stays fixed from set_model_input on.
C15_SplitFractionsFixedThenUnfixed ==
    /\ (AtStmt("set_port") \/ InPropagation) =>
          \A s \in AllSplitters :
              Cardinality({o \in outlet_ports(s) :
                             SplitFraction(s, o) \in
                                 fs.fixed \ SetModelInputFixes}) = 1
    /\ AtStmt("solve") => fs.fixed = SetModelInputFixes
    /\ fs.pc \in {"inputs_set", "initialize", "initialized", "done"} =>
          SplitFraction("t4_splitter", "outlet_2") \in fs.fixed

C15_Witness ==
    /\ AtStmt("solve")
    /\ fs.fixed \cap SplitFractionVars =
          {SplitFraction("t4_splitter", "outlet_2")}
    /\ InitializedUnits = Units

\* C16: the boiler is initialized first; every port copy runs along an Arc,
\* from an outlet of a unit that is already initialized into an inlet of a
\* unit that is not yet, and every unit but the boiler has had a copy into
\* one of its inlets when its own initialize is called.
C16_PropagationInTopologicalOrder ==
    /\ (fs.pc = "initialize" /\ fs.initialized # <<>>) =>
          fs.initialized[1] = "boiler"
    /\ AtStmt("set_port") =>
          /\ <<Stmt.a[2], Stmt.a[1]>> \in Arcs
          /\ IsOutletPort(Stmt.a[2])
          /\ UnitOfPort(Stmt.a[2]) \in InitializedUnits
          /\ IsInletPort(Stmt.a[1])
          /\ UnitOfPort(Stmt.a[1]) \notin InitializedUnits
    /\ (AtStmt("initialize") /\ Stmt.a[1] # "boiler") =>
          /\ Stmt.a[1] \notin InitializedUnits
          /\ \E q \in inlet_ports(Stmt.a[1]) :
                PortName(Stmt.a[1], q) \in fs.ports_set

C16_Witness ==
    /\ AtStmt("set_port")
    /\ Stmt.a = <<"fwh6.inlet_2", "bfp.outlet">>
    /\ "bfp" \in InitializedUnits
    /\ "fwh6" \notin InitializedUnits

\* C17: the global solve is issued once, as the last statement of
\* initialize, when every unit is initialized, every split fraction fixed in
\* step 1 is unfixed and every constraint deactivated in step 1 is active
\* again; no unit-level initialize is called after an activate statement.
C17_GlobalSolveOnceAndLast ==
    /\ fs.pc = "initialize" => fs.solves \in {0, 1}
    /\ AtStmt("solve") =>
          /\ fs.solves = 0
          /\ fs.ip = Len(InitializeProgram)
          /\ InitializedUnits = Units
          /\ fs.fixed \cap SplitFractionVars \subseteq SetModelInputFixes
          /\ FlowsheetConstraints \subseteq fs.active
    /\ (fs.pc = "initialize" /\ fs.solves = 1) =>
          fs.ip = Len(InitializeProgram) + 1
    /\ fs.pc \in {"initialized", "done"} => fs.solves = 1
    /\ AtStmt("initialize") =>
          \A i \in 1..(fs.ip - 1) : InitializeProgram[i].op # "activate"

C17_Witness ==
    /\ fs.pc = "initialize"
    /\ fs.ip = Len(InitializeProgram) + 1
    /\ fs.solves = 1
    /\ FlowsheetConstraints \subseteq fs.active
    /\ fs.fixed = SetModelInputFixes

\* The block has two phases.
TwoPhase == Cardinality(phase_list(config)) = 2

\* Every block has family c active / no block has family c active.
ActiveOnAll(c) == \A k \in Keys : <<k, c>> \in active

ActiveOnNone(c) == \A k \in Keys : <<k, c>> \notin active

\* Every activity_coeff_comp exists and is fixed at 1.
ActivityCoeffFixedAtOne ==
    \A k \in Keys :
        /\ k \in DOMAIN ac_value
        /\ k \in ac_fixed
        /\ ac_value[k] = "1"

\* C18: the first solve of initialize is issued iff the block is two-phase
\* (has_phase_equilibrium, or a two-phase valid_phase), in one call for every
\* key, and skipped for a single-phase block; when it is issued none of
\* eq_total, eq_comp, eq_sum_mol_frac, eq_phase_equilibrium,
\* eq_enth_mol_phase, eq_entr_mol_phase, eq_Gij_coeff, eq_A, eq_B,
\* eq_activity_coeff is active on any block.
C18_FirstSolveIffTwoPhase ==
    /\ pc = "step2" =>
          /\ n_solves = 1 <=>
                (config.has_phase_equilibrium \/ TwoPhase)
          /\ n_solves = 0 <=> ~TwoPhase
    /\ pc \in {"step1", "step2"} =>
          \A c \in {"eq_total", "eq_comp", "eq_sum_mol_frac",
                     "eq_phase_equilibrium", "eq_enth_mol_phase",
                     "eq_entr_mol_phase", "eq_Gij_coeff", "eq_A", "eq_B",
                     "eq_activity_coeff"} : ActiveOnNone(c)

C18_Witness ==
    /\ pc = "step2"
    /\ TwoPhase
    /\ n_solves = 1
    /\ ActiveOnAll("eq_P_vap")
    /\ ActiveOnNone("eq_phase_equilibrium")

\* C19: at the second solve of initialize the total and component balances
\* and the phase-equilibrium constraints are active again, eq_enth_mol_phase,
\* eq_entr_mol_phase, eq_Gij_coeff, eq_A, eq_B and eq_activity_coeff are
\* still inactive, and every activity_coeff_comp is fixed at 1 iff the
\* activity model is not Ideal.
C19_SecondSolveAssumesIdeal ==
    pc = "step3" =>
        /\ n_solves = IF TwoPhase THEN 2 ELSE 1
        /\ ActiveOnAll("eq_total")
        /\ ActiveOnAll("eq_comp")
        /\ TwoPhase =>
              /\ ActiveOnAll("eq_sum_mol_frac")
              /\ ActiveOnAll("eq_phase_equilibrium")
        /\ \A c \in {"eq_enth_mol_phase", "eq_entr_mol_phase", "eq_Gij_coeff",
                     "eq_A", "eq_B", "eq_activity_coeff"} : ActiveOnNone(c)
        /\ ActivityCoeffFixedAtOne <=> config.activity_coeff_model # "Ideal"

C19_Witness ==
    /\ pc = "step3"
    /\ config.activity_coeff_model = "Wilson"
    /\ n_solves = 2
    /\ ActivityCoeffFixedAtOne
    /\ ActiveOnAll("eq_phase_equilibrium")
    /\ ActiveOnNone("eq_activity_coeff")

\* C20, as stated: for a non-ideal model no solve of initialize is issued
\* with eq_Gij_coeff, eq_A or eq_B active while the activity coefficients
\* are still fixed at 1.
C20_NoSolveWithAuxiliaryActiveWhileFixed ==
    (/\ pc \in {"step2", "step3", "step4", "step5", "finish"}
     /\ n_solves > 0
     /\ config.activity_coeff_model # "Ideal") =>
        ~(/\ ActivityCoeffFixedAtOne
          /\ \E c \in {"eq_Gij_coeff", "eq_A", "eq_B"} : ActiveOnAll(c))

\* C20, as the code has it: for a non-ideal model the third solve is issued
\* with eq_Gij_coeff, eq_A and eq_B active again, eq_activity_coeff inactive
\* and the activity coefficients still fixed at 1; the fourth solve is issued
\* with eq_activity_coeff active as well and the activity coefficients
\* unfixed; no solve is issued with eq_activity_coeff active while an
\* activity coefficient is fixed.
C20_AuxiliaryThenActivityCoeff ==
    config.activity_coeff_model # "Ideal" =>
        /\ pc = "step4" =>
              /\ n_solves = 3
              /\ \A c \in {"eq_Gij_coeff", "eq_A", "eq_B"} : ActiveOnAll(c)
              /\ ActiveOnNone("eq_activity_coeff")
              /\ ActivityCoeffFixedAtOne
        /\ pc = "step5" =>
              /\ n_solves = 4
              /\ \A c \in {"eq_Gij_coeff", "eq_A", "eq_B",
                           "eq_activity_coeff"} : ActiveOnAll(c)
              /\ ac_fixed = {}
              /\ \A k \in Keys : ac_value[k] = "solved"
        /\ pc \in {"step1", "step2", "step3", "step4", "step5", "finish"} =>
              \A k \in Keys :
                  ~(<<k, "eq_activity_coeff">> \in active /\ k \in ac_fixed)

C20_Witness ==
    /\ pc = "step4"
    /\ config.activity_coeff_model = "NRTL"
    /\ n_solves = 3
    /\ ActiveOnAll("eq_A")
    /\ ActiveOnNone("eq_activity_coeff")
    /\ ActivityCoeffFixedAtOne

\* The solves a block with the given number of skipped solves has issued
\* when initialize is at pc.
SolvesIssuedAt(p, skipped) ==
    CASE p = "step1" -> 0
      [] p = "step2" -> 1 - skipped
      [] p = "step3" -> 2 - skipped
      [] p = "step4" -> 3 - skipped
      [] p = "step5" -> 4 - skipped
      [] OTHER -> 5 - skipped

\* C21: a run of initialize that does not raise issues exactly five solves
\* for a two-phase block and exactly four, the first one skipped, for a
\* single-phase block, one per step and in the order of the steps, whatever
\* the activity model, hold_state and state_vars_fixed.
C21_FiveSolvesOrFour ==
    pc \in {"step1", "step2", "step3", "step4", "step5", "finish",
            "returned", "released"} =>
        n_solves = SolvesIssuedAt(pc, IF TwoPhase THEN 0 ELSE 1)

C21_Witness ==
    /\ pc = "returned"
    /\ ~TwoPhase
    /\ n_solves = 4
    /\ args.state_vars_fixed

\* C22: eq_mol_frac_out exists exactly on blocks built with defined_state
\* False; initialize deactivates it on those blocks before the first solve,
\* it is inactive at every solve, and it is active again when initialize
\* returns, the reactivation coming after the last solve.
C22_OutletConstraintOffDuringSolves ==
    /\ Built => ("eq_mol_frac_out" \in exists <=> config.defined_state = FALSE)
    /\ pc \in {"step1", "step2", "step3", "step4", "step5", "finish"} =>
          ActiveOnNone("eq_mol_frac_out")
    /\ (Returned /\ config.defined_state = FALSE) =>
          ActiveOnAll("eq_mol_frac_out")

C22_Witness ==
    /\ pc = "finish"
    /\ config.defined_state = FALSE
    /\ TwoPhase
    /\ n_solves = 5
    /\ ActiveOnNone("eq_mol_frac_out")
    /\ Keys \X {"eq_mol_frac_out"} \subseteq pre.active

\* How often unit u has been initialized.
TimesInitialized(u) ==
    Cardinality({i \in DOMAIN fs.initialized : fs.initialized[i] = u})

\* C23: create_model creates 37 unit models (boiler, reheater, 9 turbines,
\* 8 splitters, bfpt, bfp, condenser mixer, condenser, condensate pump, 5
\* feedwater-heater mixers, 7 feedwater heaters, deaerator); initialize
\* never calls the initialize of one of them twice, and has called the
\* initialize of every one of them exactly once when it issues the global
\* solve and when it returns.
C23_EveryUnitInitializedOnce ==
    /\ Cardinality(Units) = 37
    /\ Cardinality(Turbines) = 9
    /\ Cardinality(AllSplitters) = 8
    /\ Cardinality(FWH_Mixers_list) = 5
    /\ Cardinality(FWH_list) = 7
    /\ fs.pc \in {"initialize", "initialized", "done"} =>
          /\ \A u \in Units : TimesInitialized(u) <= 1
          /\ InitializedUnits \subseteq Units
          /\ (AtStmt("solve") \/ fs.solves > 0) =>
                \A u \in Units : TimesInitialized(u) = 1
          /\ fs.solves > 0 => ~AtStmt("initialize")

C23_Witness ==
    /\ AtStmt("solve")
    /\ \A u \in Units : TimesInitialized(u) = 1
    /\ Len(fs.initialized) = 37

\* The turbine whose pressure ratio the shell-side pressure-drop constraint
\* of feedwater heater f is written for.
TurbineNamedFor(f) ==
    CASE f = "fwh1" -> "turbine_9"
      [] f = "fwh2" -> "turbine_8"
      [] f = "fwh3" -> "turbine_7"
      [] f = "fwh4" -> "turbine_6"
      [] f = "fwh6" -> "turbine_4"
      [] f = "fwh7" -> "turbine_3"
      [] f = "fwh8" -> "turbine_2"

\* C24: once set_model_input has run, turbine_pressure_ratio of every
\* feedwater heater equals the ratioP value fixed for the turbine named for
\* it (fwh1: turbine_9, fwh2: turbine_8, fwh3: turbine_7, fwh4: turbine_6,
\* fwh6: turbine_4, fwh7: turbine_3, fwh8: turbine_2).
C24_PressureRatiosAgree ==
    fs.pc \in {"inputs_set", "initialize", "initialized", "done"} =>
        \A f \in FWH_list :
            /\ (TurbineNamedFor(f) \o ".ratioP") \in fs.fixed
            /\ fs.turbine_pressure_ratio[f] = fs.ratioP[TurbineNamedFor(f)]

C24_Witness ==
    /\ fs.pc = "done"
    /\ fs.turbine_pressure_ratio["fwh6"] = fs.ratioP["turbine_4"]
    /\ fs.turbine_pressure_ratio["fwh6"] # fs.ratioP["turbine_3"]
    /\ fs.turbine_pressure_ratio["fwh1"] = 500000

\* C25: when initialize raises because state_vars_fixed is True and the
\* degrees of freedom of a block are not zero, no variable's fixed status and
\* no constraint's active status differs from what it was before the call,
\* eq_mol_frac_out of blocks with defined_state False included.
C25_RaiseLeavesModelUnchanged ==
    (pc = "raised" /\ ret = "Exception") =>
        /\ fixed = pre.fixed
        /\ ac_fixed = pre.ac_fixed
        /\ active = pre.active

\* The families initialize deactivates: the ten left out of the first solve
\* and eq_mol_frac_out.
DeactivatedByInitialize == DeactivatedForFirstSolve \cup {"eq_mol_frac_out"}

\* C26: within one run of initialize, once the initial deactivation is done
\* the set of active constraints only grows from one solve to the next and
\* up to the return, and when initialize returns normally every family it
\* deactivated (eq_total, eq_comp, eq_sum_mol_frac, eq_phase_equilibrium,
\* eq_enth_mol_phase, eq_entr_mol_phase, eq_Gij_coeff, eq_A, eq_B,
\* eq_activity_coeff, eq_mol_frac_out) is active on every block that has it,
\* for every activity model and phase configuration.
C26_ActiveSetGrowsAndIsRestored ==
    /\ [][(pc \in {"step1", "step2", "step3", "step4", "step5", "finish"})
             => active \subseteq active']_vars
    /\ [](Returned =>
             /\ \A kc \in pre.active :
                    kc[2] \in DeactivatedByInitialize => kc \in active
             /\ active = pre.active)

C26_Witness ==
    /\ pc = "returned"
    /\ config.activity_coeff_model = "Wilson"
    /\ TwoPhase
    /\ config.defined_state = FALSE
    /\ \A c \in DeactivatedByInitialize : ActiveOnAll(c)

\* C27, as stated: for a two-phase NRTL or Wilson block whose activity
\* coefficients the caller did not fix, at every solve inside initialize
\* (solves 1 to 5) activity_coeff_comp is fixed exactly when
\* eq_activity_coeff is inactive, so that no solve sees an unfixed activity
\* coefficient in an active constraint (eq_temperature_dew among them)
\* without eq_activity_coeff.
C27_FixedIffActivityEquationInactive ==
    (/\ pc \in {"step2", "step3", "step4", "step5", "finish"}
     /\ MakesActivityEq(config)
     /\ pre.ac_fixed = {}) =>
        \A k \in Keys :
            /\ k \in ac_fixed <=> <<k, "eq_activity_coeff">> \notin active
            /\ (/\ k \notin ac_fixed
                /\ \E c \in ActivityCoeffOccursIn : <<k, c>> \in active)
                   => <<k, "eq_activity_coeff">> \in active

\* The number of equation sets build makes for the configuration.
EquationSetsMade(cfg) ==
    Cardinality({s \in {"liq", "vap", "flash"} :
                   \/ s = "liq" /\ MakesLiqPhaseEq(cfg)
                   \/ s = "vap" /\ MakesVapPhaseEq(cfg)
                   \/ s = "flash" /\ MakesFlashEq(cfg)})

\* C28, as stated: for every configuration build accepts it makes exactly
\* one of the liquid-only, vapour-only and flash equation sets, and
\* initialize touches only components build created: a single-phase block
\* with NRTL or Wilson is initialized to completion, no call ends by
\* referring to activity_coeff_comp or eq_activity_coeff on a block that
\* does not have them, and activity_coeff_comp is never fixed on such a
\* block.
C28_InitializeTouchesOnlyBuiltComponents ==
    Built =>
        /\ EquationSetsMade(config) = 1
        /\ active \subseteq Keys \X exists
        /\ ~MakesActivityEq(config) =>
              /\ ac_fixed = {}
              /\ ret # "AttributeError"
              /\ pc # "raised" \/ ret = "Exception"

\* The variables of port p.
VarsOfPort(p) == {p \o "." \o v : v \in PortVars}

\* The tear streams: the drain inlets of the condenser mixer, of the
\* feed-water-heater mixers and of the deaerator, and the boiler inlet.
TearPorts ==
    {PortName(u, "drain") : u \in FWH_Mixers_list \cup
                                    {"condenser_mix", "fwh5_da"}}
        \cup {"boiler.inlet"}

\* The position in initialize of the call that initializes unit u.
InitializeStmtOf(u) ==
    CHOOSE i \in DOMAIN InitializeProgram :
        /\ InitializeProgram[i].op = "initialize"
        /\ InitializeProgram[i].a[1] = u

\* Variable v is unfixed by the run of unfix statements that follows the
\* initialize call of unit u, and initialize is inside that run.
UnfixedRightAfter(u, v) ==
    \E j \in DOMAIN InitializeProgram :
        /\ fs.ip <= j
        /\ InitializeStmtOf(u) < fs.ip
        /\ \A i \in (InitializeStmtOf(u) + 1)..j :
               InitializeProgram[i].op = "unfix"
        /\ v \in Range(InitializeProgram[j].a)

\* C29: every Arc leads into its own destination port; when the unit of the
\* destination is initialized that port has either been given the values of
\* the Arc's source port by a port copy or, for a tear stream, has all its
\* variables fixed at guesses, never both; every port copy runs along a
\* declared Arc; only tear streams get guesses; and a guess is unfixed by
\* the statements right after the initialize call of its unit.
C29_ArcsCopiedOrTorn ==
    fs.pc = "initialize" =>
        /\ \A a, b \in Arcs : a[2] = b[2] => a = b
        /\ \A a \in Arcs :
              (AtStmt("initialize") /\ Stmt.a[1] = UnitOfPort(a[2])) =>
                  /\ a[2] \notin TearPorts =>
                        /\ a[2] \in fs.ports_set
                        /\ VarsOfPort(a[2]) \cap fs.fixed = {}
                  /\ a[2] \in TearPorts =>
                        /\ a[2] \notin fs.ports_set
                        /\ VarsOfPort(a[2]) \subseteq fs.fixed
        /\ AtStmt("set_port") => <<Stmt.a[2], Stmt.a[1]>> \in Arcs
        /\ \A a \in Arcs : \A v \in VarsOfPort(a[2]) :
              (v \in fs.fixed /\ v \notin SetModelInputFixes) =>
                  /\ a[2] \in TearPorts
                  /\ \/ UnitOfPort(a[2]) \notin InitializedUnits
                     \/ UnfixedRightAfter(UnitOfPort(a[2]), v)

C29_Witness ==
    /\ AtStmt("initialize")
    /\ Stmt.a[1] = "fwh5_da"
    /\ {"fwh5_da.feedwater", "fwh5_da.steam"} \subseteq fs.ports_set
    /\ VarsOfPort("fwh5_da.drain") \subseteq fs.fixed

\* Step 1 of initialize is done and nothing after it has run: initialize is
\* at its first port copy.
RightAfterStep1 ==
    /\ AtStmt("set_port")
    /\ \A i \in 1..(fs.ip - 1) : InitializeProgram[i].op # "set_port"

\* C30: step 1 of initialize keeps the flowsheet square: right after it the
\* variables fixed on top of those of set_model_input are eight split
\* fractions, the constraints switched off are the seven vaporfrac
\* constraints and constraint_out_pressure, eight as well, and the degrees of
\* freedom of the flowsheet are zero, as they were after set_model_input.
C30_Step1KeepsModelSquare ==
    /\ fs.pc = "inputs_set" => fs_degrees_of_freedom(fs) = 0
    /\ RightAfterStep1 =>
          /\ SetModelInputFixes \subseteq fs.fixed
          /\ fs.fixed \ SetModelInputFixes \subseteq SplitFractionVars
          /\ Cardinality(fs.fixed \ SetModelInputFixes) = 8
          /\ fs.active \subseteq FlowsheetConstraints
          /\ FlowsheetConstraints \ fs.active =
                VaporfracConstraints \cup {"constraint_out_pressure"}
          /\ Cardinality(FlowsheetConstraints \ fs.active) = 8
          /\ fs_degrees_of_freedom(fs) = 0

C30_Witness ==
    /\ RightAfterStep1
    /\ Stmt.line = 814
    /\ SplitFraction("t4_splitter", "outlet_1") \in fs.fixed
    /\ "constraint_out_pressure" \notin fs.active
    /\ fs_degrees_of_freedom(fs) = 0

====
